---- MODULE Spec2Model ----
(***************************************************************************)
(* Model of the voice-agent framework: the Orchestrator (agent registry,   *)
(* set_active_agent, the event loop and its response dispatch), the        *)
(* session context it owns, and the carrier call handler's supervisor      *)
(* loop.  A handler is one action; the calls it makes are operators that   *)
(* thread a record M (the "machine") holding every field a handler can     *)
(* change, and append one event per call to M.tr, in program order.        *)
(***************************************************************************)
EXTENDS Integers, Sequences, FiniteSets, TLC

VARIABLES
    pc,               \* position of the program: setup / ready / loop / stopped / call_*
    agents,           \* Orchestrator._agents, in registration order
    active_agent,     \* Orchestrator._active_agent (its name, or None)
    running,          \* Orchestrator._running
    session,          \* GlobalContext.session (SessionContext)
    user,             \* GlobalContext.user (UserContext)
    handoff_context,  \* AbstractAgent._handoff_context of each agent (the handoff it was built from)
    lifecycle,        \* per agent: the last lifecycle hook that completed on it
    io,               \* IOHandler: closed flag, _filler_task, _filler_cancelled, fillers sent and not cancelled
    observer,         \* InterventionObserver: _cancel_event, _intervention_triggered, and
                      \* whether the time since _last_activity exceeds timeout_seconds
    now,              \* the clock read by datetime.utcnow()
    hid,              \* number of HandoffData objects created so far (object identity)
    nsignals,         \* signals taken from the input stream so far
    ncalls,           \* carrier calls accepted so far
    switch_requested, \* TwilioVoiceHandler._switch_agent_requested
    next_agent_name,  \* TwilioVoiceHandler._next_agent_name
    bridge_handoff,   \* TwilioVoiceHandler._handoff_data
    loop_tasks,       \* timeout_task and silence_task of _event_loop: none / running / done
    live,             \* the LLM live sessions a call has open, and whether its two pumps run
    conns,            \* the carrier connections served by the one TwilioVoiceHandler: position
                      \* and TwilioMediaStreamHandler of each handle_call, and the one that ran last
    handoff_log,      \* history: the prepare_handoff calls and handoff deliveries of the session
    trace,            \* the calls made by the last handler, in order
    raised,           \* the exception that left the last handler (kind "none" if none)
    metrics,          \* a VUIMetrics object: _timers, _last_audio_sent, _silence_start, and
                      \* the calls made on it with the metric events it logged
    perf_counter,     \* the clock read by time.perf_counter(), in ticks of TickMs
    task_table,       \* the tasks table behind TaskRepository, with the result of the last call
    resampler         \* the audioop.ratecv states of the bridge's two pumps in the live
                      \* session that runs: the state each last call was given and returned

orchestration == <<pc, agents, active_agent, running, session, user, handoff_context,
          lifecycle, io, observer, now, hid, nsignals, ncalls, switch_requested,
          next_agent_name, bridge_handoff, loop_tasks, live, conns, handoff_log, trace,
          raised>>

\* the state of the services the orchestration calls into
services == <<metrics, perf_counter, task_table, resampler>>

vars == <<orchestration, services>>

(* ------------------------------ bounds -------------------------------- *)
MaxSignals == 2      \* input signals per run of the event loop
MaxToolCalls == 2    \* tool calls in one ToolCall response
MaxCalls == 2        \* carrier calls handled one after another
MaxElapse == 1       \* clock ticks that can pass while one signal is handled
MaxCancels == 3      \* calls of cancel_filler in a row
MaxConnections == 2  \* carrier connections open at the same time
MaxMetricCalls == 4  \* calls made on one VUIMetrics object
MaxPerf == 4         \* ticks of the perf_counter clock
MaxTasks == 2        \* tasks created in the tasks table
MaxFrames == 2       \* audio frames a pump converts in one live session
MaxSessions == 2     \* live sessions of one call

(* ------------------------------ names --------------------------------- *)
None == "None"
AgentOrder == <<"router", "identity", "task_manager">>
AgentNames == {AgentOrder[i] : i \in 1..Len(AgentOrder)}
UnknownAgent == "human_intervention"
EmptyTarget == ""
TRANSFER_AGENT_TOOL == "transfer_agent"

Range(s) == {s[i] : i \in 1..Len(s)}

(* ----------------------------- context.py ----------------------------- *)
NoHandoff ==
    [id |-> 0, source_agent |-> None, target_agent |-> None, last_user_turn |-> None,
     user_intent |-> None, user_name |-> None, greeting_completed |-> FALSE, reason |-> None]

HandoffData(id, source, target, last_turn, intent, greeted, reason) ==
    [id |-> id, source_agent |-> source, target_agent |-> target,
     last_user_turn |-> last_turn, user_intent |-> intent, user_name |-> None,
     greeting_completed |-> greeted, reason |-> reason]

SessionContext(sid) ==
    [session_id |-> sid, active_agent |-> "router", previous_agent |-> None,
     conversation_history |-> <<>>, handoff_data |-> NoHandoff, greeting_completed |-> FALSE,
     stream_sid |-> None]

AnonymousUser == [user_id |-> "anonymous", full_name |-> None, is_authenticated |-> FALSE]
KnownUser == [user_id |-> "u1", full_name |-> "Alice", is_authenticated |-> TRUE]

ConversationTurn(role, content, agent_name, ts) ==
    [role |-> role, content |-> content, agent_name |-> agent_name, timestamp |-> ts]

is_authenticated(M) == M.user.is_authenticated

NoExc == [kind |-> "none", source |-> None, target |-> None, recoverable |-> FALSE]
RoutingException(source, target) ==
    [kind |-> "RoutingException", source |-> source, target |-> target, recoverable |-> FALSE]
AgentException(recoverable) ==
    [kind |-> "AgentException", source |-> None, target |-> None, recoverable |-> recoverable]
OtherException(kind) == [kind |-> kind, source |-> None, target |-> None, recoverable |-> FALSE]

Ev(op, a, b, n) == [op |-> op, a |-> a, b |-> b, n |-> n]
Emit(M, e) == [M EXCEPT !.tr = Append(@, e)]

\* Faulty variant of add_turn: the new turn is inserted at the front.
add_turn_front(M, role, content, agent_name) ==
    [M EXCEPT !.session.conversation_history =
                  <<ConversationTurn(role, content, agent_name, M.now)>> \o @]

\* SessionContext.add_turn: the turn is stamped with the clock and appended.
add_turn(M, role, content, agent_name) ==
    [M EXCEPT !.session.conversation_history =
                  Append(@, ConversationTurn(role, content, agent_name, M.now))]

\* SessionContext.get_last_user_turn: content of the latest turn with role "user".
get_last_user_turn(sess) ==
    LET h == sess.conversation_history
        idx == {i \in 1..Len(h) : h[i].role = "user"}
    IN IF idx = {} THEN None
       ELSE h[CHOOSE i \in idx : \A j \in idx : j <= i].content

\* Faulty variant of switch_agent: the switch also starts the greeting over.
switch_agent_regreet(sess, new_agent) ==
    [sess EXCEPT !.previous_agent = sess.active_agent, !.active_agent = new_agent,
                 !.greeting_completed = FALSE]

\* SessionContext.switch_agent
switch_agent(sess, new_agent) ==
    [sess EXCEPT !.previous_agent = sess.active_agent, !.active_agent = new_agent]

\* SessionContext.prepare_handoff: a new HandoffData object replaces the slot.
prepare_handoff(M, target_agent, reason, user_intent) ==
    LET h == HandoffData(M.hid + 1, M.session.active_agent, target_agent,
                         get_last_user_turn(M.session), user_intent,
                         M.session.greeting_completed, reason)
    IN Emit([M EXCEPT !.session.handoff_data = h, !.hid = M.hid + 1],
            Ev("prepare_handoff", target_agent, M.session.active_agent, M.hid + 1))

\* handoff.user_name = context.user.full_name, on the object the session slot holds.
attach_user_name(M) ==
    IF is_authenticated(M)
    THEN [M EXCEPT !.session.handoff_data.user_name = M.user.full_name]
    ELSE M

\* SessionContext.mark_greeting_completed
mark_greeting_completed(sess) == [sess EXCEPT !.greeting_completed = TRUE]

\* GlobalContext.set_user: also stamps a pending handoff with the user's name.
set_user(M, u) ==
    LET M1 == [M EXCEPT !.user = u]
    IN IF M.session.handoff_data.id # 0
       THEN [M1 EXCEPT !.session.handoff_data.user_name = u.full_name]
       ELSE M1

\* GlobalContext.clear_user
clear_user(M) == [M EXCEPT !.user = AnonymousUser]

(* ------------------------------ agent.py ------------------------------ *)
\* HandoffData.to_context_injection: the lines of the block, one for each
\* field that is set; no block at all when none is
to_context_injection(h) ==
    SelectSeq(<<[line |-> "User Name", value |-> h.user_name],
                [line |-> "Previous Intent", value |-> h.user_intent],
                [line |-> "Last User Message", value |-> h.last_user_turn],
                [line |-> "Note: Greeting already completed",
                 value |-> IF h.greeting_completed THEN "TRUE" ELSE None],
                [line |-> "Handoff Reason", value |-> h.reason]>>,
              LAMBDA part : part.value # None)

\* the system prompt of agent a with its template variables replaced
rendered(a) == <<[line |-> "system_prompt", value |-> a]>>

\* AbstractAgent.render_prompt, and the override in IdentityAgent, which
\* returns the system prompt with the phone number and nothing else;
\* hctx is the handoff the agent's _handoff_context was formatted from
render_prompt(a, hctx) ==
    IF a = "identity" THEN rendered(a)
    ELSE IF to_context_injection(hctx) # <<>>
    THEN rendered(a) \o to_context_injection(hctx)
    ELSE rendered(a)

\* AbstractAgent.on_exit: clears the agent's handoff context.
on_exit(M, a) ==
    Emit([M EXCEPT !.hctx[a] = NoHandoff, !.lc[a] = "exited"], Ev("on_exit", a, None, 0))

\* AbstractAgent.on_enter: keeps the handoff it is given, or clears the context.
on_enter(M, a, h) ==
    Emit([M EXCEPT !.hctx[a] = h, !.lc[a] = "entered"], Ev("on_enter", a, None, h.id))

(* --------------------------- orchestrator.py -------------------------- *)
\* the call of set_active_agent, as the handler's trace records it
switch_called(M, agent_name, handoff_data) ==
    Emit(M, Ev("set_active_agent", agent_name, M.active, handoff_data.id))

\* raise RoutingException(source_agent=session.active_agent, target_agent=agent_name)
raise_routing(M, agent_name) ==
    [M EXCEPT !.exc = RoutingException(M.session.active_agent, agent_name)]

\* if self._active_agent: await self._active_agent.on_exit(self.context)
exit_active(M) == IF M.active # None THEN on_exit(M, M.active) ELSE M

\* self._active_agent = self._agents[agent_name]; session.switch_agent(agent_name)
activate(M, agent_name) ==
    [M EXCEPT !.active = agent_name, !.session = switch_agent(M.session, agent_name)]

\* Faulty variant of set_active_agent: the new agent is entered before the old
\* one is exited.
set_active_agent_enter_first(M, agent_name, handoff_data) ==
    IF agent_name \notin Range(M.agents)
    THEN raise_routing(switch_called(M, agent_name, handoff_data), agent_name)
    ELSE activate(exit_active(on_enter(switch_called(M, agent_name, handoff_data),
                                       agent_name, handoff_data)),
                  agent_name)

\* Faulty variant of set_active_agent: the registry is not consulted.
set_active_agent_unchecked(M, agent_name, handoff_data) ==
    on_enter(activate(exit_active(switch_called(M, agent_name, handoff_data)), agent_name),
             agent_name, handoff_data)

\* Faulty variant of set_active_agent: the old agent is exited before the
\* registry is consulted.
set_active_agent_exit_first(M, agent_name, handoff_data) ==
    IF agent_name \notin Range(M.agents)
    THEN raise_routing(exit_active(switch_called(M, agent_name, handoff_data)), agent_name)
    ELSE on_enter(activate(exit_active(switch_called(M, agent_name, handoff_data)),
                           agent_name),
                  agent_name, handoff_data)

\* Orchestrator.set_active_agent
set_active_agent(M, agent_name, handoff_data) ==
    IF agent_name \notin Range(M.agents)
    THEN raise_routing(switch_called(M, agent_name, handoff_data), agent_name)
    ELSE on_enter(activate(exit_active(switch_called(M, agent_name, handoff_data)),
                           agent_name),
                  agent_name, handoff_data)

\* set_active_agent(target, handoff) with the handoff just prepared
switch_with_handoff(M, target) == set_active_agent(M, target, M.session.handoff_data)

(* ----------------------------- signals.py ----------------------------- *)
\* TextSignal carries content; AudioSignal has no content attribute and, as the
\* I/O handlers build it, no transcription.
TextSignal(c) == [kind |-> "text", content |-> c]
AudioSignal == [kind |-> "audio", content |-> None]
Contents == {"add a task", "who am i", "stop", "help"}
Signals == {TextSignal(c) : c \in Contents} \cup {AudioSignal}

ToolCall(name, target) == [tool_name |-> name, target_agent_name |-> target]
RegularTools == {"create_user", "get_all_tasks"}
TransferTargets == AgentNames \cup {UnknownAgent, EmptyTarget}
ToolCalls == {ToolCall(t, None) : t \in RegularTools}
                \cup {ToolCall(TRANSFER_AGENT_TOOL, t) : t \in TransferTargets}
ToolCallLists == UNION {[1..n -> ToolCalls] : n \in 1..MaxToolCalls}

NoDecision == [thought_process |-> None, route_to |-> None, handover_context |-> None]
RoutingDecision(thought, route_to, handover) ==
    [thought_process |-> thought, route_to |-> route_to, handover_context |-> handover]

NoResponse ==
    [response_type |-> None, agent_name |-> None, text_content |-> None, audio_data |-> FALSE,
     tool_calls |-> <<>>, routing_decision |-> NoDecision, requires_tool_execution |-> FALSE]
text_response(agent, content) ==
    [NoResponse EXCEPT !.response_type = "TEXT", !.agent_name = agent, !.text_content = content]
audio_response(agent) ==
    [NoResponse EXCEPT !.response_type = "AUDIO", !.agent_name = agent, !.audio_data = TRUE]
tool_response(agent, calls) ==
    [NoResponse EXCEPT !.response_type = "TOOL_CALL", !.agent_name = agent,
                       !.tool_calls = calls, !.requires_tool_execution = TRUE]
routing_response(agent, decision) ==
    [NoResponse EXCEPT !.response_type = "ROUTING", !.agent_name = agent,
                       !.routing_decision = decision]

(* ---------------------- what the LLM may answer ----------------------- *)
\* What an agent's turn can come to: an LLMResponse with tool calls, audio or
\* text, the client call raising, or the agent raising an AgentException.
LLMOutputs ==
    {[kind |-> "tools", calls |-> cs, text |-> None] : cs \in ToolCallLists}
        \cup {[kind |-> k, calls |-> <<>>, text |-> None] : k \in {"audio", "error"}}
        \cup {[kind |-> "text", calls |-> <<>>, text |-> t] : t \in {"ok", "identity"}}
        \cup {[kind |-> "agent_error", calls |-> <<>>, text |-> t] : t \in {"recoverable", "fatal"}}

NoLLM == [kind |-> "none", calls |-> <<>>, text |-> None]

\* What a tool invocation does: returns success, returns a result without
\* success, or raises.  Only the calls up to the first transfer_agent can be
\* invoked by either dispatcher, so the outcome of the others is left at "ok".
Outcomes == {"ok", "fail", "raise"}
ToolOutcomes(llm) ==
    {o \in [1..Len(llm.calls) -> Outcomes] :
        \A i \in 1..Len(llm.calls) :
            (\E j \in 1..i : llm.calls[j].tool_name = TRANSFER_AGENT_TOOL) => o[i] = "ok"}

(* ------------------------------ router.py ----------------------------- *)
VALID_TARGETS == {"identity", "task_manager", "router"}

\* the keyword tables of _quick_route, on the model's utterances
HasTaskKeyword(text) == text = "add a task"
HasAuthKeyword(text) == text = "who am i"

\* RouterAgent._extract_text
extract_text(sig) == IF sig.kind = "text" THEN sig.content ELSE None

\* RouterAgent._quick_route
quick_route(text, authenticated) ==
    IF HasTaskKeyword(text) THEN RoutingDecision("task intent", "task_manager", text)
    ELSE IF HasAuthKeyword(text) THEN RoutingDecision("identity intent", "identity", None)
    ELSE IF authenticated THEN RoutingDecision("default", "task_manager", text)
    ELSE NoDecision

\* RouterAgent._parse_text_routing
parse_text_routing(text) ==
    RoutingDecision("parsed", IF text = "identity" THEN "identity" ELSE "task_manager", None)

\* RouterAgent._llm_route
llm_route(sig, llm) ==
    LET text_content == IF extract_text(sig) # None THEN extract_text(sig) ELSE "[audio input]"
        idx == {i \in 1..Len(llm.calls) : llm.calls[i].tool_name = TRANSFER_AGENT_TOOL}
        first == CHOOSE i \in idx : \A j \in idx : i <= j
        target == llm.calls[first].target_agent_name
    IN IF llm.kind \in {"error", "agent_error"}
       THEN RoutingDecision("Fallback routing", "task_manager", None)
       ELSE IF idx # {}
       THEN RoutingDecision("reason", IF target \in VALID_TARGETS THEN target ELSE "task_manager",
                            text_content)
       ELSE IF llm.kind = "text" THEN parse_text_routing(llm.text)
       ELSE RoutingDecision("Fallback routing", "task_manager", None)

\* RouterAgent.process_signal
router_process_signal(sig, authenticated, llm) ==
    IF ~authenticated
    THEN RoutingDecision("User is not authenticated", "identity",
                         "New session, authentication required")
    ELSE IF extract_text(sig) # None /\ quick_route(extract_text(sig), authenticated) # NoDecision
    THEN quick_route(extract_text(sig), authenticated)
    ELSE llm_route(sig, llm)

(* ------------------------------- base.py ------------------------------ *)
\* BaseClientAgent.process_signal: the LLM's answer wrapped into a Response.
base_process_signal(a, sig, llm) ==
    IF llm.kind = "tools" THEN tool_response(a, llm.calls)
    ELSE IF sig.kind = "audio" /\ llm.kind = "audio" THEN audio_response(a)
    ELSE IF llm.kind = "text" THEN text_response(a, llm.text)
    ELSE text_response(a, IF sig.kind = "audio" THEN "I'm sorry" ELSE "I understand.")

\* process_signal of the agent named a; [exc, resp].
agent_process_signal(a, sig, authenticated, llm) ==
    IF a = "router"
    THEN [exc |-> NoExc,
          resp |-> routing_response(a, router_process_signal(sig, authenticated, llm))]
    ELSE IF llm.kind = "error"
    THEN [exc |-> OtherException("Exception"), resp |-> NoResponse]
    ELSE IF llm.kind = "agent_error"
    THEN [exc |-> AgentException(llm.text = "recoverable"), resp |-> NoResponse]
    ELSE [exc |-> NoExc, resp |-> base_process_signal(a, sig, llm)]

(* ---------------------------- task_agent.py --------------------------- *)
\* the tools TaskManagerAgent registers, and those that call _get_user_id
TaskTools ==
    {"create_task", "search_tasks", "get_all_tasks", "update_task_status",
     "get_todays_tasks", "get_high_priority_tasks", "delete_task"}
AuthCheckedTools ==
    {"create_task", "search_tasks", "get_all_tasks", "get_todays_tasks",
     "get_high_priority_tasks"}

\* the tools each agent registers
AgentTools(a) ==
    CASE a = "router" -> {TRANSFER_AGENT_TOOL}
      [] a = "identity" -> {"create_user"}
      [] a = "task_manager" -> TaskTools
      [] OTHER -> {}

\* TaskManagerAgent._get_user_id raises ValueError("User not authenticated")
\* in the tools that call it.
get_user_id_raises(M, tool_name) == tool_name \in AuthCheckedTools /\ ~is_authenticated(M)

\* what a tool of the active agent comes to: its outcome, or the error of
\* _get_user_id
tool_outcome(M, tool_name, outcome) ==
    IF get_user_id_raises(M, tool_name) THEN "raise" ELSE outcome

\* a task tool of the active agent up to its repository access: _get_user_id
\* raises, or the tool goes on to
\* `async with self.database.repositories() as (_, tasks)` and reads or writes
use_repository(M, tool_name) ==
    IF tool_name \notin TaskTools \cap AgentTools(M.active) THEN M
    ELSE IF get_user_id_raises(M, tool_name)
    THEN Emit(M, Ev("get_user_id", tool_name, "ValueError", 0))
    ELSE Emit(M, Ev("task_repository", tool_name, None, 0))

\* AbstractAgent.is_tool_slow: the task tools are registered with is_slow=True
is_tool_slow(a, tool_name) == tool_name \in AgentTools(a) /\ a = "task_manager"

\* handle_tool_result: TaskManagerAgent answers a successful creation, listing
\* or search, the base class returns None.
handle_tool_result(a, tool_name, outcome) ==
    IF a = "task_manager" /\ outcome = "ok"
       /\ tool_name \in {"create_task", "get_all_tasks", "search_tasks"}
    THEN text_response(a, "summary")
    ELSE NoResponse

(* ----------------------------- io_handler.py -------------------------- *)
\* IOHandler.__init__ of the handler classes; only TwilioMediaStreamHandler
\* defines clear_audio.  pending counts the fillers sent and not yet cancelled.
IOHandlers == {"CLIHandler", "TwilioMediaStreamHandler"}
IOHandler(class) ==
    [closed |-> FALSE, filler_task |-> None, filler_cancelled |-> FALSE, pending |-> 0,
     has_clear_audio |-> (class = "TwilioMediaStreamHandler")]

\* Faulty variant of cancel_filler: the flag is flipped instead of set.
cancel_filler_toggle(M) ==
    Emit([M EXCEPT !.io.filler_cancelled = ~@, !.io.filler_task = None, !.io.pending = 0],
         Ev("cancel_filler", None, None, 0))

\* IOHandler.cancel_filler: sets the flag, cancels and awaits an unfinished
\* filler task, and forgets the task.
cancel_filler(M) ==
    Emit([M EXCEPT !.io.filler_cancelled = TRUE, !.io.filler_task = None, !.io.pending = 0],
         Ev("cancel_filler", None, None, 0))

\* the flag is cleared and the phrase goes out through _send_filler_impl
filler_sent(M, filler_type, agent_name) ==
    Emit([M EXCEPT !.io.filler_cancelled = FALSE, !.io.pending = @ + 1],
         Ev("send_filler", filler_type, agent_name, 0))

\* IOHandler.send_filler: cancels the previous filler, clears the flag, sends.
send_filler(M, filler_type, agent_name) ==
    filler_sent(cancel_filler(M), filler_type, agent_name)

\* IOHandler.send_text
send_text(M, content, agent_name) == Emit(M, Ev("send_text", content, agent_name, 0))

\* IOHandler.stream_output
stream_output(M, resp) == Emit(M, Ev("stream_output", resp.agent_name, resp.response_type, 0))

\* IOHandler.close
close(M) == Emit([M EXCEPT !.io.closed = TRUE], Ev("close", None, None, 0))

(* ----------------------------- observer.py --------------------------- *)
\* HotwordConfig.matches on the model's utterances (substring match on the
\* default hotword list).
matches(text) ==
    IF text = "stop" THEN "stop" ELSE IF text = "help" THEN "help" ELSE None

\* InterventionObserver._get_target_for_hotword
get_target_for_hotword(hotword) ==
    IF hotword \in {"operator", "help", "emergency"} THEN "human_intervention"
    ELSE IF hotword \in {"stop", "cancel", "nevermind", "never mind"} THEN "router"
    ELSE None

\* InterventionObserver._analyze_signal: the hotword found in the signal's text.
analyze_signal(sig) == IF sig.kind = "text" THEN matches(sig.content) ELSE None

\* InterventionObserver.__init__
InterventionObserver == [cancelled |-> FALSE, intervention_triggered |-> FALSE, timed_out |-> FALSE]

\* InterventionObserver.reset
reset(M) == Emit([M EXCEPT !.obs = InterventionObserver], Ev("observer_reset", None, None, 0))

\* InterventionObserver.watch: self._last_activity = now, for each signal
note_activity(M) == [M EXCEPT !.obs.timed_out = FALSE]

\* InterventionObserver.check_timeout: raises the TIMEOUT intervention, with
\* target router, when the inactivity exceeds the timeout
check_timeout(M) ==
    IF M.obs.timed_out
    THEN [Emit(M, Ev("check_timeout", "TIMEOUT", "router", 0))
             EXCEPT !.exc = OtherException("PriorityIntervention")]
    ELSE Emit(M, Ev("check_timeout", None, None, 0))

(* ---------------------- orchestrator.py: dispatch --------------------- *)
ISSUE_APOLOGY == "I encountered an issue. Let me try again."
TOOL_APOLOGY == "I'm having trouble with that. Let me try something else."
ACKNOWLEDGEMENT == "I understand. How can I help you?"

\* if hasattr(signal, "content"): session.add_turn(role="user", content=...)
record_user_turn(M, sig) ==
    IF sig.kind = "text" THEN add_turn(M, "user", sig.content, None) ELSE M

\* the authentication gate of _process_signal
auth_gate(M) ==
    IF ~is_authenticated(M) /\ M.active # "identity" /\ "identity" \in Range(M.agents)
    THEN switch_with_handoff(
             prepare_handoff(M, "identity", "Authentication required", None), "identity")
    ELSE M

\* the result of awaited process_signal: a response, or the exception raised
answered(M, r) ==
    IF r.exc = NoExc THEN [M EXCEPT !.resp = r.resp]
    ELSE [Emit(M, Ev("raise", r.exc.kind, IF r.exc.recoverable THEN "recoverable" ELSE "fatal", 0))
             EXCEPT !.exc = r.exc, !.resp = r.resp]

\* response = await self._active_agent.process_signal(signal, self.context)
ask_agent(M, sig, llm) ==
    answered(Emit(M, Ev("process_signal", M.active, sig.kind, 0)),
             agent_process_signal(M.active, sig, is_authenticated(M), llm))

\* Faulty variant of _process_signal: the authentication gate is missing.
process_signal_ungated(M, sig, llm) == ask_agent(record_user_turn(M, sig), sig, llm)

\* Orchestrator._process_signal
process_signal(M, sig, llm) == ask_agent(auth_gate(record_user_turn(M, sig)), sig, llm)

\* tool_call.arguments.get("target_agent_name", "task_manager")
target_of(tool_call) ==
    IF tool_call.target_agent_name = None THEN "task_manager"
    ELSE tool_call.target_agent_name

\* Faulty variant of the switch target: the requested name is used as it is.
switch_target_unchecked(M, target) == target

\* the agent _handle_transfer_agent switches to: the target if it is
\* registered, task_manager otherwise
switch_target(M, target) == IF target \in Range(M.agents) THEN target ELSE "task_manager"

\* Faulty variant of the steps before a warm switch: the filler is left playing.
warm_handoff_uncancelled(M, filler_agent, target, reason, user_intent) ==
    attach_user_name(
        prepare_handoff(send_filler(M, "ROUTING", filler_agent), target, reason, user_intent))

\* filler, handoff, user name, cancel_filler: the steps before a warm switch
warm_handoff(M, filler_agent, target, reason, user_intent) ==
    cancel_filler(attach_user_name(
        prepare_handoff(send_filler(M, "ROUTING", filler_agent), target, reason, user_intent)))

\* Orchestrator._handle_transfer_agent for the target named by the call
transfer_to(M, target) ==
    switch_with_handoff(
        warm_handoff(Emit(M, Ev("handle_transfer_agent", target, None, 0)),
                     M.active, target, "reason", get_last_user_turn(M.session)),
        switch_target(M, target))

\* Orchestrator._handle_transfer_agent
handle_transfer_agent(M, tool_call) == transfer_to(M, target_of(tool_call))

\* Faulty variant of _handle_routing_decision: the signal is handed again to
\* the agent that was switched to.
handle_routing_decision_replay(M, resp) ==
    IF resp.routing_decision.route_to \in Range(M.agents)
    THEN Emit(switch_with_handoff(
                  warm_handoff(M, resp.agent_name, resp.routing_decision.route_to,
                               resp.routing_decision.thought_process,
                               resp.routing_decision.handover_context),
                  resp.routing_decision.route_to),
              Ev("process_signal", resp.routing_decision.route_to, "again", 0))
    ELSE M

\* Orchestrator._handle_routing_decision
handle_routing_decision(M, resp) ==
    IF resp.routing_decision.route_to \in Range(M.agents)
    THEN switch_with_handoff(
             warm_handoff(M, resp.agent_name, resp.routing_decision.route_to,
                          resp.routing_decision.thought_process,
                          resp.routing_decision.handover_context),
             resp.routing_decision.route_to)
    ELSE M

\* Orchestrator._get_filler_type_for_tool
get_filler_type_for_tool(tool_name) ==
    IF tool_name \in {"create_user", "create_task"} THEN "CREATING"
    ELSE IF tool_name \in {"get_all_tasks", "search_tasks"} THEN "SEARCHING"
    ELSE "TOOL_EXECUTION"

\* Orchestrator._execute_single_tool: the tool's result, or the error raised
\* for a tool that is not found or that raises.
tool_result(M, tool_name, outcome) ==
    IF tool_name \notin AgentTools(M.active) \/ tool_outcome(M, tool_name, outcome) = "raise"
    THEN "ToolExecutionException"
    ELSE outcome

execute_single_tool(M, tool_name, outcome) ==
    Emit(use_repository(M, tool_name),
         Ev("execute_single_tool", tool_name, tool_result(M, tool_name, outcome), 0))

\* Faulty variant of mask_latency: a filler is sent for every tool.
mask_latency_always(M, tool_name) ==
    send_filler(M, get_filler_type_for_tool(tool_name), M.active)

\* if self._active_agent.is_tool_slow(name): await io_handler.send_filler(...)
mask_latency(M, tool_name) ==
    IF is_tool_slow(M.active, tool_name)
    THEN send_filler(M, get_filler_type_for_tool(tool_name), M.active)
    ELSE M

\* one tool call of _execute_tools up to cancel_filler, on either path
run_tool(M, tool_name, outcome) ==
    cancel_filler(execute_single_tool(mask_latency(M, tool_name), tool_name, outcome))

\* Faulty variant of the except clause: the failure is passed over in silence.
apologise_never(M, result) == M

\* except ToolExecutionException: the apology for the failed tool
apologise_if_failed(M, result) ==
    IF result = "ToolExecutionException" THEN send_text(M, TOOL_APOLOGY, M.active) ELSE M

\* Orchestrator._execute_tools: the loop over response.tool_calls from index i;
\* a response of handle_tool_result ends it.
RECURSIVE execute_tools(_, _, _, _)
RECURSIVE after_tool(_, _, _, _, _)
after_tool(M, resp, outs, i, result) ==
    IF result # "ToolExecutionException"
       /\ handle_tool_result(M.active, resp.tool_calls[i].tool_name, result) # NoResponse
    THEN [M EXCEPT !.resp = handle_tool_result(M.active, resp.tool_calls[i].tool_name, result)]
    ELSE execute_tools(apologise_if_failed(M, result), resp, outs, i + 1)

execute_tools(M, resp, outs, i) ==
    IF i > Len(resp.tool_calls) THEN [M EXCEPT !.resp = resp]
    ELSE IF resp.tool_calls[i].tool_name = TRANSFER_AGENT_TOOL
    THEN execute_tools(M, resp, outs, i + 1)
    ELSE after_tool(run_tool(M, resp.tool_calls[i].tool_name, outs[i]), resp, outs, i,
                    tool_result(M, resp.tool_calls[i].tool_name, outs[i]))

\* if not greeting_completed: session.mark_greeting_completed()
greet_once(M) ==
    [M EXCEPT !.session = IF ~M.session.greeting_completed
                          THEN mark_greeting_completed(M.session)
                          ELSE M.session]

\* the tail of _handle_response for M.resp: routing decision, or the reply to the user
deliver_response(M) ==
    IF M.resp.response_type = "ROUTING" /\ M.resp.routing_decision # NoDecision
    THEN handle_routing_decision(M, M.resp)
    ELSE IF M.resp.text_content # None \/ M.resp.audio_data
    THEN add_turn(greet_once(stream_output(M, M.resp)), "assistant",
                  IF M.resp.text_content # None THEN M.resp.text_content
                  ELSE "[audio response]",
                  M.resp.agent_name)
    ELSE M

HasTransfer(calls) == \E i \in 1..Len(calls) : calls[i].tool_name = TRANSFER_AGENT_TOOL
FirstTransfer(calls) ==
    calls[CHOOSE i \in 1..Len(calls) :
              /\ calls[i].tool_name = TRANSFER_AGENT_TOOL
              /\ \A j \in 1..(i - 1) : calls[j].tool_name # TRANSFER_AGENT_TOOL]

\* the event of _handle_response being called with resp
response_received(M, resp) ==
    Emit(M, Ev("handle_response", resp.response_type,
               IF HasTransfer(resp.tool_calls) THEN TRANSFER_AGENT_TOOL ELSE None,
               Len(resp.tool_calls)))

\* Faulty variant of the dispatch: the tool calls are executed before the
\* transfer_agent call is looked for.
dispatch_tools_first(M, resp, outs) ==
    IF resp.requires_tool_execution /\ Len(resp.tool_calls) > 0
    THEN IF HasTransfer(resp.tool_calls)
         THEN handle_transfer_agent(execute_tools(M, resp, outs, 1),
                                    FirstTransfer(resp.tool_calls))
         ELSE deliver_response(execute_tools(M, resp, outs, 1))
    ELSE deliver_response([M EXCEPT !.resp = resp])

\* the body of _handle_response: transfer_agent interception, tool execution,
\* then the routing decision or the reply
dispatch(M, resp, outs) ==
    IF resp.requires_tool_execution /\ Len(resp.tool_calls) > 0
          /\ HasTransfer(resp.tool_calls)
    THEN handle_transfer_agent(M, FirstTransfer(resp.tool_calls))
    ELSE deliver_response(IF resp.requires_tool_execution /\ Len(resp.tool_calls) > 0
                          THEN execute_tools(M, resp, outs, 1)
                          ELSE [M EXCEPT !.resp = resp])

\* Orchestrator._handle_response
handle_response(M, resp, outs) == dispatch(response_received(M, resp), resp, outs)

\* if hasattr(io_handler, "clear_audio"): await io_handler.clear_audio()
clear_audio(M) ==
    IF M.io.has_clear_audio THEN Emit(M, Ev("clear_audio", None, None, 0)) ELSE M

\* the switch of _handle_intervention: the target if registered, else router
intervention_switch(M, target_agent) ==
    IF (target_agent # None /\ target_agent \in Range(M.agents)) \/ "router" \in Range(M.agents)
    THEN set_active_agent(M, IF target_agent # None /\ target_agent \in Range(M.agents)
                             THEN target_agent ELSE "router",
                          NoHandoff)
    ELSE M

\* the acknowledgement of _handle_intervention
acknowledge(M) == send_text(M, ACKNOWLEDGEMENT, IF M.active # None THEN M.active ELSE "system")

\* Faulty variant of _handle_intervention: the acknowledgement is sent before
\* the agent is switched.
handle_intervention_ack_first(M, target_agent) ==
    reset(intervention_switch(
        acknowledge(clear_audio(cancel_filler(
            Emit(M, Ev("handle_intervention", target_agent, M.active, 0))))),
        target_agent))

\* Orchestrator._handle_intervention
handle_intervention(M, target_agent) ==
    reset(acknowledge(intervention_switch(
        clear_audio(cancel_filler(Emit(M, Ev("handle_intervention", target_agent, M.active, 0)))),
        target_agent)))

\* await self._handle_response(response, io_handler), reached when
\* _process_signal returned; d is the time the agent took
respond(M, outs, d) ==
    IF M.exc # NoExc THEN M ELSE handle_response([M EXCEPT !.now = @ + d], M.resp, outs)

\* Faulty variant of the except clauses: every agent error is apologised for.
inner_handlers_forgiving(M) ==
    IF M.exc = NoExc THEN M
    ELSE IF M.exc.kind = "AgentException"
    THEN [send_text(M, ISSUE_APOLOGY, "system") EXCEPT !.exc = NoExc]
    ELSE [M EXCEPT !.left = TRUE]

\* the except clauses of the inner try; left is TRUE when the exception leaves
\* the loop
inner_handlers(M) ==
    IF M.exc = NoExc THEN M
    ELSE IF M.exc.kind = "AgentException" /\ M.exc.recoverable
    THEN [send_text(M, ISSUE_APOLOGY, "system") EXCEPT !.exc = NoExc]
    ELSE [M EXCEPT !.left = TRUE]

\* the body of `async for signal in signal_stream` for one signal
loop_body(M, sig, llm, outs, d) ==
    inner_handlers(respond(process_signal(M, sig, llm), outs, d))

\* the finally clause of run(): _running = False; io_handler.close()
run_finally(M) == close([M EXCEPT !.running = FALSE])

\* _event_loop before its `async for`: the two background tasks are created
event_loop_start(M) ==
    IF M.left THEN M ELSE [M EXCEPT !.tasks = [timeout |-> "running", silence |-> "running"]]

\* Faulty variant of event_loop_finally: the loop returns with its tasks as they are.
event_loop_returns(M) == M

\* the finally clause of _event_loop: both tasks are cancelled, then awaited
\* with gather(return_exceptions=True); each task leaves its loop on CancelledError
event_loop_finally(M) ==
    Emit(Emit(Emit([M EXCEPT !.tasks = [timeout |-> "done", silence |-> "done"]],
                   Ev("cancel", "timeout_task", None, 0)),
              Ev("cancel", "silence_task", None, 0)),
         Ev("gather", "timeout_task", "silence_task", 0))

\* run() after _event_loop has returned or raised
leave_or_stay(M) == IF M.left THEN run_finally(event_loop_finally(M)) ELSE M

\* the loop is left: end of stream, cancellation, or after an intervention
leave(M) == [M EXCEPT !.left = TRUE]

\* the hotword intervention raised by observer.watch, caught around the loop
intervene(M, hotword) ==
    handle_intervention([M EXCEPT !.obs.intervention_triggered = TRUE],
                        get_target_for_hotword(hotword))

\* io_handler.stream_input() hands the next signal to observer.watch
stream_input(M, sig) == Emit(M, Ev("stream_input", sig.kind, sig.content, 0))

\* observer.watch: yield signal
watch_yield(M, sig) == Emit(M, Ev("watch_yield", sig.kind, sig.content, 0))

\* the intervention of a signal that was analysed after it was yielded
watched_late(M, sig) ==
    IF analyze_signal(sig) # None /\ ~M.left THEN leave(intervene(M, analyze_signal(sig)))
    ELSE M

\* Faulty variant of watched: the signal is yielded before it is analysed.
watched_unfiltered(M, sig, llm, outs, d) ==
    IF ~M.running THEN leave(watch_yield(M, sig))
    ELSE watched_late(loop_body(watch_yield(M, sig), sig, llm, outs, d), sig)

\* a signal that observer.watch has let through to its analysis
watched(M, sig, llm, outs, d) ==
    IF analyze_signal(sig) # None THEN leave(intervene(M, analyze_signal(sig)))
    ELSE IF ~M.running THEN leave(watch_yield(M, sig))
    ELSE loop_body(watch_yield(M, sig), sig, llm, outs, d)

\* one signal arriving on observer.watch(io_handler.stream_input())
event_loop_step(M, sig, llm, outs, d) ==
    leave_or_stay(IF M.obs.cancelled THEN leave(stream_input(M, sig))
                  ELSE watched(note_activity(stream_input(M, sig)), sig, llm, outs, d))

\* except PriorityIntervention: pass, in _timeout_checker
swallow(M) == [M EXCEPT !.exc = NoExc]

\* one round of Orchestrator._timeout_checker: sleep, check_timeout, and the
\* intervention it raises is dropped
timeout_checker(M) == swallow(check_timeout(M))

\* a call before _run_agent_session: no live session is open and no pump runs
\* start_reader: the task of _receive_loop_for_start still reads; readers: the
\* tasks that read from the carrier WebSocket
LiveSession ==
    [open |-> 0, receive |-> FALSE, send |-> FALSE, start_reader |-> FALSE, readers |-> 0]

\* the websocket connections the carrier can have open at once
Connections == 1..MaxConnections

(* ----------------------------- metrics.py ----------------------------- *)
TTFA_WARNING_MS == 500
SILENCE_WARNING_MS == 1000
ROUTING_WARNING_MS == 200

\* milliseconds in one tick of perf_counter
TickMs == 500

\* a timer that is not in _timers, a time that is None
NoTime == -1

TimerNames == {"ttfa", "routing"}

\* VUIMetrics.__init__
VUIMetrics ==
    [timers |-> [n \in TimerNames |-> NoTime], last_audio_sent |-> NoTime,
     silence_start |-> NoTime, history |-> <<>>]

\* a call made on the object, as the history keeps it
called(m, op) == [m EXCEPT !.history = Append(@, [op |-> op, value |-> 0, level |-> "call"])]

\* VUIMetrics._log_metric
log_metric(m, metric_type, value_ms, warning_threshold) ==
    [m EXCEPT !.history =
        Append(@, [op |-> metric_type, value |-> value_ms,
                   level |-> IF warning_threshold # 0 /\ value_ms > warning_threshold
                             THEN "warning" ELSE "info"])]

\* VUIMetrics.start_timer
start_timer(m, name, t) == [m EXCEPT !.timers[name] = t]

\* what stop_timer returns: 0.0 for a timer that was not started
elapsed_ms(m, name, t) ==
    IF m.timers[name] = NoTime THEN 0 ELSE (t - m.timers[name]) * TickMs

\* Faulty variant of stop_timer: the timer stays in _timers.
stop_timer_keeps(m, name) == m

\* VUIMetrics.stop_timer: del self._timers[name]
stop_timer(m, name) == [m EXCEPT !.timers[name] = NoTime]

\* VUIMetrics.record_user_speech_end
record_user_speech_end(m, t) == start_timer(called(m, "record_user_speech_end"), "ttfa", t)

\* self._last_audio_sent = time.perf_counter()
audio_stamped(m, t) == [m EXCEPT !.last_audio_sent = t]

\* VUIMetrics.record_first_audio_sent
record_first_audio_sent(m, t) ==
    IF elapsed_ms(m, "ttfa", t) > 0
    THEN log_metric(audio_stamped(stop_timer(called(m, "record_first_audio_sent"), "ttfa"), t),
                    "ttfa", elapsed_ms(m, "ttfa", t), TTFA_WARNING_MS)
    ELSE audio_stamped(stop_timer(called(m, "record_first_audio_sent"), "ttfa"), t)

\* VUIMetrics.record_routing_start
record_routing_start(m, t) == start_timer(called(m, "record_routing_start"), "routing", t)

\* VUIMetrics.record_routing_complete
record_routing_complete(m, t) ==
    log_metric(stop_timer(called(m, "record_routing_complete"), "routing"),
               "routing_latency", elapsed_ms(m, "routing", t), ROUTING_WARNING_MS)

\* silence_duration of check_silence
silence_ms(m, t) == (t - m.last_audio_sent) * TickMs

\* Faulty variant of silence_logged: the episode is not latched.
silence_logged_unlatched(m, t) ==
    log_metric(m, "silence_duration", silence_ms(m, t), SILENCE_WARNING_MS)

\* the inner branch of check_silence: _silence_start is set and the event logged
silence_logged(m, t) ==
    log_metric([m EXCEPT !.silence_start = m.last_audio_sent],
               "silence_duration", silence_ms(m, t), SILENCE_WARNING_MS)

\* VUIMetrics.check_silence
check_silence(m, t) ==
    IF m.last_audio_sent = NoTime THEN called(m, "check_silence")
    ELSE IF silence_ms(m, t) > SILENCE_WARNING_MS /\ m.silence_start = NoTime
    THEN silence_logged(called(m, "check_silence"), t)
    ELSE called(m, "check_silence")

\* VUIMetrics.reset_silence_tracker
reset_silence_tracker(m, t) ==
    [called(m, "reset_silence_tracker") EXCEPT !.silence_start = NoTime, !.last_audio_sent = t]

(* --------------------------- repository.py ---------------------------- *)
valid_statuses == {"OPEN", "IN_PROGRESS", "COMPLETED", "CANCELLED"}

\* the priorities and statuses a caller may pass
Priorities == {0, 3, 9}
Statuses == valid_statuses \cup {"DONE"}

\* an empty tasks table; `created` counts the task ids handed out, `call` and
\* `result` describe the last repository call
TaskTable ==
    [rows |-> <<>>, created |-> 0,
     call |-> [op |-> None, task_id |-> 0, keys |-> {}, priority |-> None, status |-> None],
     result |-> None]

\* a row of the tasks table
Task(task_id, priority, status) == [task_id |-> task_id, priority |-> priority, status |-> status]

\* Faulty variant of clamp: the priority is stored as it is given.
clamp_none(priority) == priority

\* max(1, min(5, priority))
clamp(priority) ==
    IF (IF 5 < priority THEN 5 ELSE priority) < 1 THEN 1
    ELSE IF 5 < priority THEN 5 ELSE priority

\* the call and what it raised or returned
returned(tt, call, result) == [tt EXCEPT !.call = call, !.result = result]

\* does a row with this id exist
row_exists(tt, task_id) == \E i \in 1..Len(tt.rows) : tt.rows[i].task_id = task_id

found_or_none(tt, task_id) == IF row_exists(tt, task_id) THEN "task" ELSE "none"

\* TaskRepository.create
create(tt, priority) ==
    returned([tt EXCEPT !.rows = Append(@, Task(tt.created + 1, clamp(priority), "OPEN")),
                        !.created = @ + 1],
             [op |-> "create", task_id |-> tt.created + 1, keys |-> {"priority"},
              priority |-> priority, status |-> None],
             "task")

\* update(Task).where(Task.task_id == task_id).values(status=status)
set_status(rows, task_id, status) ==
    [i \in 1..Len(rows) |->
        IF rows[i].task_id = task_id THEN [rows[i] EXCEPT !.status = status] ELSE rows[i]]

\* update(Task).where(Task.task_id == task_id).values(priority=priority)
set_priority(rows, task_id, priority) ==
    [i \in 1..Len(rows) |->
        IF rows[i].task_id = task_id THEN [rows[i] EXCEPT !.priority = priority] ELSE rows[i]]

\* TaskRepository.update_status
update_status(tt, task_id, status) ==
    IF status \notin valid_statuses
    THEN returned(tt, [op |-> "update_status", task_id |-> task_id, keys |-> {"status"},
                       priority |-> None, status |-> status], "ValueError")
    ELSE returned([tt EXCEPT !.rows = set_status(@, task_id, status)],
                  [op |-> "update_status", task_id |-> task_id, keys |-> {"status"},
                   priority |-> None, status |-> status],
                  found_or_none(tt, task_id))

\* the values(**kwargs) of update, for the keys that are present
set_values(rows, task_id, keys, priority, status) ==
    IF keys = {"priority", "status"}
    THEN set_status(set_priority(rows, task_id, clamp(priority)), task_id, status)
    ELSE IF keys = {"priority"} THEN set_priority(rows, task_id, clamp(priority))
    ELSE IF keys = {"status"} THEN set_status(rows, task_id, status)
    ELSE rows

\* TaskRepository.update with the kwargs named in keys
update(tt, task_id, keys, priority, status) ==
    IF "status" \in keys /\ status \notin valid_statuses
    THEN returned(tt, [op |-> "update", task_id |-> task_id, keys |-> keys,
                       priority |-> priority, status |-> status], "ValueError")
    ELSE returned([tt EXCEPT !.rows = set_values(@, task_id, keys, priority, status)],
                  [op |-> "update", task_id |-> task_id, keys |-> keys,
                   priority |-> priority, status |-> status],
                  found_or_none(tt, task_id))

\* TaskRepository.delete
delete(tt, task_id) ==
    returned([tt EXCEPT !.rows = SelectSeq(@, LAMBDA r : r.task_id # task_id)],
             [op |-> "delete", task_id |-> task_id, keys |-> {}, priority |-> None,
              status |-> None],
             IF row_exists(tt, task_id) THEN "True" ELSE "False")

(* ------------------------- the machine record ------------------------- *)
Machine ==
    [agents |-> agents, active |-> active_agent, running |-> running, session |-> session,
     user |-> user, hctx |-> handoff_context, lc |-> lifecycle, io |-> io, obs |-> observer,
     now |-> now, hid |-> hid, switch |-> switch_requested, next |-> next_agent_name,
     bh |-> bridge_handoff, tasks |-> loop_tasks, live |-> live, conns |-> conns, tr |-> <<>>, exc |-> NoExc, resp |-> NoResponse, left |-> FALSE]

\* the events of a handler that prepare a handoff or hand one to an on_enter
HandoffEvents(tr) ==
    SelectSeq(tr, LAMBDA e : e.op = "prepare_handoff" \/ (e.op = "on_enter" /\ e.n # 0))

Commit(M) ==
    /\ active_agent' = M.active
    /\ running' = M.running
    /\ session' = M.session
    /\ user' = M.user
    /\ handoff_context' = M.hctx
    /\ lifecycle' = M.lc
    /\ io' = M.io
    /\ observer' = M.obs
    /\ now' = M.now
    /\ hid' = M.hid
    /\ switch_requested' = M.switch
    /\ next_agent_name' = M.next
    /\ bridge_handoff' = M.bh
    /\ loop_tasks' = M.tasks
    /\ live' = M.live
    /\ conns' = M.conns
    /\ handoff_log' = (IF M.session.session_id = session.session_id THEN handoff_log ELSE <<>>)
                          \o HandoffEvents(M.tr)
    /\ trace' = M.tr
    /\ raised' = M.exc
    /\ UNCHANGED services

(* ------------------- twilio_handler.py: the bridge pumps -------------- *)
\* audioop.ratecv(fragment, 2, 1, inrate, outrate, state) on mono samples, as
\* the pumps call it: linear interpolation between the last two samples read,
\* d being the position between them.  A state of None is the initial state;
\* a state ratecv returns has d < 0, so that NoState stands for None.
NoState == [d |-> 0, prev |-> 0, cur |-> 0]
RECURSIVE GCD(_, _)
GCD(a, b) == IF b = 0 THEN a ELSE GCD(b, a % b)

InitialState(outrate) == [d |-> 0 - outrate, prev |-> 0, cur |-> 0]

RECURSIVE ratecv_from(_, _, _, _, _, _)
ratecv_from(fragment, i, inrate, outrate, st, out) ==
    IF st.d < 0
    THEN IF i > Len(fragment) THEN [out |-> out, state |-> st]
         ELSE ratecv_from(fragment, i + 1, inrate, outrate,
                          [d |-> st.d + outrate, prev |-> st.cur, cur |-> fragment[i]], out)
    ELSE ratecv_from(fragment, i, inrate, outrate, [st EXCEPT !.d = @ - inrate],
                     Append(out, (st.prev * st.d + st.cur * (outrate - st.d)) \div outrate))

ratecv(fragment, inrate, outrate, state) ==
    ratecv_from(fragment, 1, inrate \div GCD(inrate, outrate), outrate \div GCD(inrate, outrate),
                IF state = NoState THEN InitialState(outrate \div GCD(inrate, outrate)) ELSE state,
                <<>>)

\* the audio frames of the model: one or two samples each
Samples == {0, 4}
Frames == {<<a>> : a \in Samples} \cup {<<a, b>> : a \in Samples, b \in Samples}

\* one pump's converter: frames converted in this live session, the state the
\* last call was given, the state it returned and the audio it produced
Resampler == [frames |-> 0, given |-> NoState, state |-> NoState, audio |-> <<>>]

\* _process_call_stream creates the two pumps of live session n
Resamplers(n) == [session |-> n, inbound |-> Resampler, outbound |-> Resampler]

\* a pump has converted one frame with the state it was given
converted(r, given, result) ==
    [frames |-> r.frames + 1, given |-> given, state |-> result.state, audio |-> result.out]

\* _send_to_twilio: pcm_8k, resample_state = ratecv(pcm_in, 2, 1, 24000, 8000, resample_state)
send_audio_frame(r, pcm_in) ==
    [r EXCEPT !.outbound = converted(@, @.state, ratecv(pcm_in, 24000, 8000, @.state))]

\* _receive_from_twilio: pcm_16k, _ = ratecv(pcm_8k, 2, 1, 8000, 16000, None)
receive_media(r, pcm_8k) ==
    [r EXCEPT !.inbound = converted(@, NoState, ratecv(pcm_8k, 8000, 16000, NoState))]

(* ------------------------------- setup -------------------------------- *)
\* Orchestrator.__init__ with a fresh GlobalContext; the context's user is the
\* anonymous default or a user the embedding application installed.
Init ==
    /\ pc = "setup"
    /\ agents = <<>>
    /\ active_agent = None
    /\ running = FALSE
    /\ session = SessionContext(0)
    /\ user \in {AnonymousUser, KnownUser}
    /\ handoff_context = [a \in AgentNames |-> NoHandoff]
    /\ lifecycle = [a \in AgentNames |-> "new"]
    /\ io = IOHandler("CLIHandler")
    /\ observer = InterventionObserver
    /\ now = 0
    /\ hid = 0
    /\ nsignals = 0
    /\ ncalls = 0
    /\ switch_requested = FALSE
    /\ next_agent_name = None
    /\ bridge_handoff = NoHandoff
    /\ loop_tasks = [timeout |-> "none", silence |-> "none"]
    /\ live = LiveSession
    /\ conns = [at |-> [c \in Connections |-> "idle"],
                io |-> [c \in Connections |-> IOHandler("TwilioMediaStreamHandler")],
                live |-> [c \in Connections |-> LiveSession],
                turn |-> 0]
    /\ handoff_log = <<>>
    /\ trace = <<>>
    /\ raised = NoExc
    /\ metrics = VUIMetrics
    /\ perf_counter = 0
    /\ task_table = TaskTable
    /\ resampler = Resamplers(1)

\* Orchestrator.register_agent, called for router, identity, task_manager in turn.
RegisterAgent ==
    /\ pc = "setup"
    /\ Len(agents) < Len(AgentOrder)
    /\ agents' = Append(agents, AgentOrder[Len(agents) + 1])
    /\ UNCHANGED <<pc, active_agent, running, session, user, handoff_context, lifecycle,
                   io, observer, now, hid, nsignals, ncalls, switch_requested,
                   next_agent_name, bridge_handoff, loop_tasks, live, conns, handoff_log,
                   trace, raised>>
    /\ UNCHANGED services

\* a handler has run: its effects, and the position the program is left at
CommitAt(M, pc_left, pc_stay) ==
    /\ Commit(M)
    /\ pc' = IF M.left THEN pc_left ELSE pc_stay

\* await orchestrator.set_active_agent("router") at the end of start-up.
SetDefaultAgent ==
    /\ pc = "setup"
    /\ Len(agents) = Len(AgentOrder)
    /\ CommitAt(set_active_agent(Machine, "router", NoHandoff), "ready", "ready")
    /\ UNCHANGED <<agents, nsignals, ncalls>>

(* --------------------------- the event loop --------------------------- *)
\* A signal the observer intercepts reaches no agent: no LLM answer, no delay.
AnswersTo(sig) == IF analyze_signal(sig) # None THEN {NoLLM} ELSE LLMOutputs
ElapseOn(sig) == IF analyze_signal(sig) # None THEN {0} ELSE 0..MaxElapse

\* the default agent of run(): router, else the first registered agent
default_agent(M) == IF "router" \in Range(M.agents) THEN "router" ELSE M.agents[1]

\* Orchestrator.run before the event loop: _running is set, and a default agent
\* is entered when none is active; with no agent registered run() raises.
run_prologue(M) ==
    IF M.active # None THEN [M EXCEPT !.running = TRUE]
    ELSE IF M.agents # <<>>
    THEN set_active_agent([M EXCEPT !.running = TRUE], default_agent(M), NoHandoff)
    ELSE [M EXCEPT !.running = TRUE, !.exc = OtherException("RuntimeError"), !.left = TRUE]

\* self._io_handler = io_handler
attach_handler(M, class) == [M EXCEPT !.io = IOHandler(class)]

\* Orchestrator.run up to the event loop, on the handler it is given.
Run ==
    /\ pc = "ready"
    /\ ncalls = 0
    /\ \E class \in IOHandlers :
         CommitAt(event_loop_start(run_prologue(attach_handler(Machine, class))),
                  "stopped", "loop")
    /\ UNCHANGED <<agents, nsignals, ncalls>>

\* One signal read from the input stream and everything the loop does with it.
EventLoopStep ==
    /\ pc = "loop"
    /\ nsignals < MaxSignals
    /\ \E sig \in Signals :
         \E llm \in AnswersTo(sig), d \in ElapseOn(sig) :
            \E outs \in ToolOutcomes(llm) :
               CommitAt(event_loop_step(Machine, sig, llm, outs, d), "stopped", "loop")
    /\ nsignals' = nsignals + 1
    /\ UNCHANGED <<agents, ncalls>>

\* The input stream ends: the loop is left and run() closes the handler.
EndOfInput ==
    /\ pc = "loop"
    /\ CommitAt(run_finally(event_loop_finally(Machine)), "stopped", "stopped")
    /\ UNCHANGED <<agents, nsignals, ncalls>>

\* Orchestrator.stop
Stop ==
    /\ pc = "loop"
    /\ running
    /\ CommitAt([Machine EXCEPT !.running = FALSE, !.obs.cancelled = TRUE], "loop", "loop")
    /\ UNCHANGED <<agents, nsignals, ncalls>>

(* -------------------- twilio_handler.py: one call --------------------- *)
\* self._handoff_data = handoff; _switch_agent_requested = True; _next_agent_name = target
request_switch(M, target) ==
    [M EXCEPT !.bh = M.session.handoff_data, !.switch = TRUE, !.next = target]

\* TwilioVoiceHandler._handle_transfer_agent
bridge_handle_transfer_agent(M, tool_call) ==
    request_switch(
        attach_user_name(prepare_handoff(M, target_of(tool_call), "reason",
                                         get_last_user_turn(M.session))),
        target_of(tool_call))

\* self._handoff_data.user_name = result["full_name"]
name_handoff(M, full_name) == [M EXCEPT !.session.handoff_data.user_name = full_name]

\* Faulty variant of user_created: the handoff is not given the user's name.
user_created_unnamed(M) ==
    request_switch(prepare_handoff(set_user(M, KnownUser), "task_manager",
                                   "User authenticated", None),
                   "task_manager")

\* the create_user special case of _execute_tool
user_created(M) ==
    request_switch(
        name_handoff(prepare_handoff(set_user(M, KnownUser), "task_manager",
                                     "User authenticated", None),
                     KnownUser.full_name),
        "task_manager")

\* TwilioVoiceHandler._execute_tool
bridge_execute_tool(M, tool_name, outcome) ==
    IF tool_name \in AgentTools(M.active) /\ tool_name = "create_user" /\ outcome = "ok"
    THEN user_created(Emit(M, Ev("tool_execute", tool_name, outcome, 0)))
    ELSE IF tool_name \in AgentTools(M.active)
    THEN Emit(use_repository(M, tool_name),
              Ev("tool_execute", tool_name, tool_outcome(M, tool_name, outcome), 0))
    ELSE Emit(M, Ev("tool_error", tool_name, None, 0))

\* what _execute_tool returns for its last event e: the tool's result, or
\* {"error": ...} when the tool raised or was not found
bridge_result(e) == IF e.op = "tool_error" \/ e.b = "raise" THEN "error" ELSE e.b

\* Faulty variant of after_bridge_tool: the tool response is sent although the
\* tool requested a switch.
after_bridge_tool_responds(M, calls, outs, i) ==
    Emit(M, Ev("send_tool_response", calls[i].tool_name, bridge_result(M.tr[Len(M.tr)]), i))

\* the tool-call loop of _send_to_twilio from index i
RECURSIVE bridge_tool_calls(_, _, _, _)
RECURSIVE after_bridge_tool(_, _, _, _)
after_bridge_tool(M, calls, outs, i) ==
    IF M.switch THEN M
    ELSE bridge_tool_calls(Emit(M, Ev("send_tool_response", calls[i].tool_name,
                                      bridge_result(M.tr[Len(M.tr)]), i)),
                           calls, outs, i + 1)

bridge_tool_calls(M, calls, outs, i) ==
    IF i > Len(calls) THEN M
    ELSE IF calls[i].tool_name = TRANSFER_AGENT_TOOL
    THEN bridge_handle_transfer_agent(M, calls[i])
    ELSE after_bridge_tool(bridge_execute_tool(M, calls[i].tool_name, outs[i]), calls, outs, i)

\* the audio of a response is forwarded and the greeting marked, when the
\* carrier's stream id is known
forward_audio(M, llm) ==
    IF llm.kind = "audio" /\ M.session.stream_sid # None
    THEN Emit(greet_once(M), Ev("media", None, None, 0))
    ELSE M

\* one response of the live session handled by _send_to_twilio
send_to_twilio(M, llm, outs) == bridge_tool_calls(forward_audio(M, llm), llm.calls, outs, 1)

\* What the live session can send: audio, lists of the calls above, and a call
\* of any other task tool.
LiveResponses ==
    {llm \in LLMOutputs : llm.kind \in {"tools", "audio"}}
        \cup {[kind |-> "tools", calls |-> <<ToolCall(t, None)>>, text |-> None] :
                 t \in TaskTools \ RegularTools}

\* Faulty variant of cancel_start_reader: the start-wait reader is left reading.
start_reader_left(L) == L

\* if existing_receive_task and not existing_receive_task.done(): existing_receive_task.cancel()
cancel_start_reader(L) ==
    IF L.start_reader THEN [L EXCEPT !.start_reader = FALSE, !.readers = @ - 1] ELSE L

\* the live session is open and _process_call_stream has created its two pumps
start_pumps(L) ==
    [L EXCEPT !.open = @ + 1, !.receive = TRUE, !.send = TRUE, !.readers = @ + 1]

\* _run_agent_session up to the start of the pumps: the live session of the
\* active agent is opened, then _process_call_stream starts both pumps
run_agent_session(M) ==
    IF M.active = None THEN M
    ELSE Emit([M EXCEPT !.live = start_pumps(cancel_start_reader(@))],
              Ev("live_open", M.active,
                 IF M.live.receive \/ M.live.send THEN "running" ELSE "stopped",
                 M.live.open))

\* the finally of _process_call_stream (the pending pump is cancelled and
\* awaited) and the finally of _run_agent_session (the live session is closed)
end_session(M) ==
    Emit([M EXCEPT !.live = [@ EXCEPT !.open = @ - 1, !.receive = FALSE, !.send = FALSE,
                                       !.readers = IF M.live.receive THEN @ - 1 ELSE @]],
         Ev("live_close", M.active, None, M.live.open))

\* Faulty variant of session_over: the session of the old agent is left open.
session_kept(M) == M

\* the outbound pump returns when a switch has been requested, which ends the session
session_over(M) == IF M.switch THEN end_session(M) ELSE M

\* the supervisor loop starts over with the next session, unless it was left
next_session(M) == IF M.left THEN M ELSE run_agent_session(M)

\* create_live_session raises: _run_agent_session logs session_error and
\* returns with no live session; handle_call finds no switch requested, leaves
\* the supervisor loop and closes the handler
session_error(M) == close(leave(M))

\* _run_agent_session, whose create_live_session returns a session or raises
start_session(M, opens) == IF opens THEN run_agent_session(M) ELSE session_error(M)

\* the supervisor loop starts over, and the next live session opens or fails
restart_session(M, opens) == IF M.left THEN M ELSE start_session(M, opens)

\* handle_call's task is cancelled at an await before the supervisor loop:
\* CancelledError leaves handle_call outside its try, so nothing is closed
cancelled_before_loop(M) == leave([M EXCEPT !.exc = OtherException("CancelledError")])

\* Faulty variant of accept_call: the user of the call before is kept.
accept_call_keeps_user(M, call_sid) ==
    [M EXCEPT !.switch = FALSE, !.next = None, !.bh = NoHandoff,
              !.session = SessionContext(call_sid),
              !.io = IOHandler("TwilioMediaStreamHandler"),
              !.live = [LiveSession EXCEPT !.start_reader = TRUE, !.readers = 1]]

\* handle_call before the wait for the start event: user, flags and session are reset
accept_call(M, call_sid) ==
    [clear_user(M) EXCEPT !.switch = FALSE, !.next = None, !.bh = NoHandoff,
                          !.session = SessionContext(call_sid),
                          !.io = IOHandler("TwilioMediaStreamHandler"),
                          !.live = [LiveSession EXCEPT !.start_reader = TRUE, !.readers = 1]]

\* handle_call up to the wait for the carrier's start event.
CallAccept ==
    /\ pc = "ready"
    /\ ncalls < MaxCalls
    /\ ncalls' = ncalls + 1
    /\ CommitAt(accept_call(Machine, ncalls + 1), "call_lookup", "call_lookup")
    /\ nsignals' = 0
    /\ UNCHANGED agents

\* _receive_loop_for_start: the reader returns once it has seen the start
\* event; when the wait for it times out the reader goes on reading
start_event(L, started) ==
    IF started /\ L.start_reader THEN [L EXCEPT !.start_reader = FALSE, !.readers = @ - 1]
    ELSE L

\* the start event (or its timeout) and the caller lookup
lookup_caller(M, started, found) ==
    IF found
    THEN set_user([M EXCEPT !.session.stream_sid = IF started THEN "MZ" ELSE None,
                            !.live = start_event(@, started)], KnownUser)
    ELSE [M EXCEPT !.session.stream_sid = IF started THEN "MZ" ELSE None,
                   !.live = start_event(@, started)]

\* how the caller lookup of handle_call can end: a user is found, none is
\* found, the number is "unknown" (no lookup is made), or the lookup raises
CallerLookups == {"found", "not_found", "unknown_number", "lookup_failed"}

\* Faulty variant of initial_agent: every caller starts at task_manager.
initial_agent_tasks(caller) == "task_manager"

\* initial_agent = "identity", changed to "task_manager" after set_user
initial_agent(caller) == IF caller = "found" THEN "task_manager" ELSE "identity"

\* start event, caller lookup and set_active_agent(initial_agent)
enter_initial_agent(M, started, caller) ==
    set_active_agent(Emit(lookup_caller(M, started, caller = "found"),
                          Ev("caller_lookup", caller, None, 0)),
                     initial_agent(caller), NoHandoff)

\* the rest of handle_call's prologue: the start event arrived or timed out,
\* the caller is looked up, and the initial agent is entered.
CallLookup ==
    /\ pc = "call_lookup"
    /\ \E started \in BOOLEAN, caller \in CallerLookups, opens \in BOOLEAN :
         CommitAt(start_session(enter_initial_agent(Machine, started, caller), opens),
                  "ready", "call_session")
    /\ UNCHANGED <<agents, nsignals, ncalls>>

\* The task running handle_call is cancelled while it waits for the start
\* event, for the caller lookup or for set_active_agent.
CallCancelled ==
    /\ pc = "call_lookup"
    /\ CommitAt(cancelled_before_loop(Machine), "ready", "ready")
    /\ UNCHANGED <<agents, nsignals, ncalls>>

\* The outbound pump handles one response of the live session.
SendToTwilio ==
    /\ pc = "call_session"
    /\ ~switch_requested
    /\ nsignals < MaxSignals
    /\ \E llm \in LiveResponses :
         \E outs \in ToolOutcomes(llm) :
            CommitAt(session_over(send_to_twilio(Machine, llm, outs)),
                     "call_session", "call_session")
    /\ nsignals' = nsignals + 1
    /\ UNCHANGED <<agents, ncalls>>

\* the supervisor's flags are reset after the switch; a routing error leaves
\* the loop and the handler is closed
switch_done(M) ==
    IF M.exc # NoExc THEN close(leave(M))
    ELSE [M EXCEPT !.switch = FALSE, !.next = None, !.bh = NoHandoff]

\* if self._next_agent_name: await set_active_agent(_next_agent_name, _handoff_data)
supervisor_switch(M) ==
    switch_done(IF M.next # EmptyTarget /\ M.next # None
                THEN set_active_agent(M, M.next, M.bh)
                ELSE M)

\* The live session has ended with a switch requested: the supervisor loop
\* switches the agent and starts over, or the routing error ends the call.
SupervisorSwitch ==
    /\ pc = "call_session"
    /\ switch_requested
    /\ \E opens \in BOOLEAN :
         CommitAt(restart_session(supervisor_switch(Machine), opens), "ready", "call_session")
    /\ UNCHANGED <<agents, nsignals, ncalls>>

\* The carrier disconnects: the supervisor loop is left and the handler closed.
Disconnect ==
    /\ pc = "call_session"
    /\ ~switch_requested
    /\ CommitAt(close(end_session(Machine)), "ready", "ready")
    /\ UNCHANGED <<agents, nsignals, ncalls>>

(* ------------------- the event loop with its timer ------------------- *)
\* No signal arrives for longer than the observer's timeout.
Silence ==
    /\ pc = "loop"
    /\ ~observer.timed_out
    /\ CommitAt([Machine EXCEPT !.obs.timed_out = TRUE], "loop", "loop")
    /\ UNCHANGED <<agents, nsignals, ncalls>>

\* The timeout task of _event_loop wakes up.
TimeoutChecker ==
    /\ pc = "loop"
    /\ running
    /\ CommitAt(timeout_checker(Machine), "loop", "loop")
    /\ UNCHANGED <<agents, nsignals, ncalls>>

Next ==
    \/ RegisterAgent
    \/ SetDefaultAgent
    \/ Run
    \/ EventLoopStep
    \/ EndOfInput
    \/ Stop
    \/ CallAccept
    \/ CallLookup
    \/ CallCancelled
    \/ SendToTwilio
    \/ SupervisorSwitch
    \/ Disconnect

Spec == Init /\ [][Next]_vars

(* ------------- the orchestrator with any set of agents ---------------- *)
\* Orchestrator.register_agent for an application that registers the agents in
\* the same order but may leave any of them out.
RegisterAny ==
    /\ pc = "setup"
    /\ \E i \in 1..Len(AgentOrder) :
         /\ \A j \in i..Len(AgentOrder) : AgentOrder[j] \notin Range(agents)
         /\ agents' = Append(agents, AgentOrder[i])
    /\ UNCHANGED <<pc, active_agent, running, session, user, handoff_context, lifecycle,
                   io, observer, now, hid, nsignals, ncalls, switch_requested,
                   next_agent_name, bridge_handoff, loop_tasks, live, conns, handoff_log,
                   trace, raised>>
    /\ UNCHANGED services

\* Orchestrator.run called with no active agent set beforehand.
RunUnprepared ==
    /\ pc = "setup"
    /\ CommitAt(event_loop_start(run_prologue(Machine)), "stopped", "loop")
    /\ UNCHANGED <<agents, nsignals, ncalls>>

FrameworkNext ==
    \/ RegisterAny
    \/ RunUnprepared
    \/ EventLoopStep
    \/ EndOfInput
    \/ Stop

FrameworkSpec == Init /\ [][FrameworkNext]_vars

(* ------------------ carrier calls served concurrently ------------------ *)
\* twilio_websocket hands every connection to the handle_call of the one
\* TwilioVoiceHandler built at start-up; each handle_call coroutine owns the
\* TwilioMediaStreamHandler it built and nothing else.
on_connection(c) == [Machine EXCEPT !.io = conns.io[c], !.live = conns.live[c]]

\* the coroutine of connection c reaches an await (or returns) at position `at`
yield_connection(M, c, at) ==
    [M EXCEPT !.conns.at[c] = at, !.conns.io[c] = M.io, !.conns.live[c] = M.live,
              !.conns.turn = c]

\* the supervisor loop of connection c goes on, or has been left
yield_or_end(M, c) == yield_connection(M, c, IF M.left THEN "done" ELSE "session")

\* handle_call of a new connection up to the wait for the start event.
ConnAccept ==
    /\ pc = "ready"
    /\ \E c \in Connections :
         /\ conns.at[c] = "idle"
         /\ CommitAt(yield_connection(accept_call(on_connection(c), c), c, "lookup"),
                     "ready", "ready")
    /\ ncalls' = ncalls + 1
    /\ UNCHANGED <<agents, nsignals>>

\* a connection's start event, caller lookup and initial agent.
ConnLookup ==
    /\ \E c \in Connections :
         /\ conns.at[c] = "lookup"
         /\ \E started \in BOOLEAN, caller \in CallerLookups :
              CommitAt(yield_connection(
                           run_agent_session(
                               enter_initial_agent(on_connection(c), started, caller)),
                           c, "session"),
                       "ready", "ready")
    /\ UNCHANGED <<agents, nsignals, ncalls>>

\* a connection's outbound pump handles one response of its live session.
ConnSend ==
    /\ ~switch_requested
    /\ nsignals < MaxSignals
    /\ \E c \in Connections :
         /\ conns.at[c] = "session"
         /\ \E llm \in LiveResponses :
              \E outs \in ToolOutcomes(llm) :
                 CommitAt(yield_connection(
                              session_over(send_to_twilio(on_connection(c), llm, outs)),
                              c, "session"),
                          "ready", "ready")
    /\ nsignals' = nsignals + 1
    /\ UNCHANGED <<agents, ncalls>>

\* a connection's supervisor loop finds the switch flag set.
ConnSwitch ==
    /\ switch_requested
    /\ \E c \in Connections :
         /\ conns.at[c] = "session"
         /\ CommitAt(yield_or_end(next_session(supervisor_switch(on_connection(c))), c),
                     "ready", "ready")
    /\ UNCHANGED <<agents, nsignals, ncalls>>

\* the carrier closes a connection.
ConnDisconnect ==
    /\ ~switch_requested
    /\ \E c \in Connections :
         /\ conns.at[c] = "session"
         /\ CommitAt(yield_connection(close(end_session(on_connection(c))), c, "done"),
                     "ready", "ready")
    /\ UNCHANGED <<agents, nsignals, ncalls>>

ConcurrentNext ==
    \/ RegisterAgent
    \/ SetDefaultAgent
    \/ ConnAccept
    \/ ConnLookup
    \/ ConnSend
    \/ ConnSwitch
    \/ ConnDisconnect

ConcurrentSpec == Init /\ [][ConcurrentNext]_vars

(* --------------- a VUIMetrics object and its callers ------------------ *)
\* the metrics object after a call, everything else as it was
MetricsCall(m) ==
    /\ metrics' = m
    /\ UNCHANGED <<orchestration, perf_counter, task_table, resampler>>

\* the inbound pump or the event loop has taken a signal from the user
RecordUserSpeechEnd ==
    /\ Len(metrics.history) < MaxMetricCalls
    /\ MetricsCall(record_user_speech_end(metrics, perf_counter))

\* the outbound pump forwards the first audio of a response
RecordFirstAudioSent ==
    /\ Len(metrics.history) < MaxMetricCalls
    /\ MetricsCall(record_first_audio_sent(metrics, perf_counter))

\* _run_agent_session before create_live_session
RecordRoutingStart ==
    /\ Len(metrics.history) < MaxMetricCalls
    /\ MetricsCall(record_routing_start(metrics, perf_counter))

\* _run_agent_session after the live session is open
RecordRoutingComplete ==
    /\ Len(metrics.history) < MaxMetricCalls
    /\ MetricsCall(record_routing_complete(metrics, perf_counter))

\* one round of _silence_monitor
CheckSilence ==
    /\ Len(metrics.history) < MaxMetricCalls
    /\ MetricsCall(check_silence(metrics, perf_counter))

\* the outbound pump has sent an audio frame to the carrier
ResetSilenceTracker ==
    /\ Len(metrics.history) < MaxMetricCalls
    /\ MetricsCall(reset_silence_tracker(metrics, perf_counter))

\* time passes
PerfTick ==
    /\ perf_counter < MaxPerf
    /\ perf_counter' = perf_counter + 1
    /\ UNCHANGED <<orchestration, metrics, task_table, resampler>>

MetricsNext ==
    \/ RecordUserSpeechEnd
    \/ RecordFirstAudioSent
    \/ RecordRoutingStart
    \/ RecordRoutingComplete
    \/ CheckSilence
    \/ ResetSilenceTracker
    \/ PerfTick

MetricsSpec == Init /\ [][MetricsNext]_vars

(* ---------------- the tasks table and its repository ------------------ *)
\* the table after a repository call, everything else as it was
RepositoryCall(tt) ==
    /\ task_table' = tt
    /\ UNCHANGED <<orchestration, metrics, perf_counter, resampler>>

\* the task ids a caller may name: those handed out, and one that never was
TaskIds == 1..(MaxTasks + 1)

\* the keyword arguments update may be called with: priority, status, both or neither
Kwargs ==
    {[keys |-> {"priority", "status"}, priority |-> p, status |-> st] :
        p \in Priorities, st \in Statuses}
      \cup {[keys |-> {"priority"}, priority |-> p, status |-> None] : p \in Priorities}
      \cup {[keys |-> {"status"}, priority |-> None, status |-> st] : st \in Statuses}
      \cup {[keys |-> {}, priority |-> None, status |-> None]}

RepoCreate ==
    /\ task_table.created < MaxTasks
    /\ \E priority \in Priorities : RepositoryCall(create(task_table, priority))

RepoUpdateStatus ==
    /\ task_table.created > 0
    /\ \E task_id \in TaskIds, status \in Statuses :
          RepositoryCall(update_status(task_table, task_id, status))

RepoUpdate ==
    /\ task_table.created > 0
    /\ \E task_id \in TaskIds, kwargs \in Kwargs :
          RepositoryCall(update(task_table, task_id, kwargs.keys, kwargs.priority,
                                kwargs.status))

RepoDelete ==
    /\ task_table.created > 0
    /\ \E task_id \in TaskIds : RepositoryCall(delete(task_table, task_id))

RepositoryNext ==
    \/ RepoCreate
    \/ RepoUpdateStatus
    \/ RepoUpdate
    \/ RepoDelete

RepositorySpec == Init /\ [][RepositoryNext]_vars

(* ------------------- the pumps of one call's live sessions ------------ *)
PumpCall(r) ==
    /\ resampler' = r
    /\ UNCHANGED <<orchestration, metrics, perf_counter, task_table>>

\* a media event of the carrier reaches the inbound pump
ReceiveMedia ==
    /\ resampler.inbound.frames < MaxFrames
    /\ \E pcm_8k \in Frames : PumpCall(receive_media(resampler, pcm_8k))

\* a response with audio reaches the outbound pump
SendAudio ==
    /\ resampler.outbound.frames < MaxFrames
    /\ \E pcm_in \in Frames : PumpCall(send_audio_frame(resampler, pcm_in))

\* an agent switch: the supervisor's next live session starts with new pumps
PumpsRestart ==
    /\ resampler.session < MaxSessions
    /\ PumpCall(Resamplers(resampler.session + 1))

PumpNext ==
    \/ ReceiveMedia
    \/ SendAudio
    \/ PumpsRestart

PumpSpec == Init /\ [][PumpNext]_vars

(* ---------- the event loop, its timeout task and the clock ------------ *)
TimedNext ==
    \/ RegisterAgent
    \/ SetDefaultAgent
    \/ Run
    \/ EventLoopStep
    \/ EndOfInput
    \/ Stop
    \/ Silence
    \/ TimeoutChecker

\* The timeout task is scheduled again every five seconds while the loop runs.
TimedSpec == Init /\ [][TimedNext]_vars /\ WF_vars(TimeoutChecker)

(* ====================================================================== *)
(*                              Properties                                *)
(* ====================================================================== *)
Positions(tr, op) == {i \in 1..Len(tr) : tr[i].op = op}

\* The lifecycle hook that completed last on agent a before position k of tr,
\* `before` being the hook that had completed last when the handler started.
LastHook(tr, k, a, before) ==
    LET hooks == {i \in 1..(k - 1) : tr[i].a = a /\ tr[i].op \in {"on_enter", "on_exit"}}
        last == CHOOSE i \in hooks : \A j \in hooks : j <= i
    IN IF hooks = {} THEN before
       ELSE IF tr[last].op = "on_enter" THEN "entered" ELSE "exited"

\* Every switch in tr runs on_exit of the old agent, then on_enter of the new
\* one, with nothing in between, and every process_signal goes to an agent whose
\* on_enter has completed and that has not been exited since.
SwitchOrdered(tr, registered, hooks_before) ==
    /\ \A s \in Positions(tr, "set_active_agent") :
          tr[s].a \in registered =>
             IF tr[s].b # None
             THEN /\ s + 2 <= Len(tr)
                  /\ tr[s + 1].op = "on_exit" /\ tr[s + 1].a = tr[s].b
                  /\ tr[s + 2].op = "on_enter" /\ tr[s + 2].a = tr[s].a
             ELSE /\ s + 1 <= Len(tr)
                  /\ tr[s + 1].op = "on_enter" /\ tr[s + 1].a = tr[s].a
    /\ \A k \in Positions(tr, "process_signal") :
          LastHook(tr, k, tr[k].a, hooks_before[tr[k].a]) = "entered"

\* C1: for every switch set_active_agent performs from an agent A to an agent B,
\* A.on_exit has completed before B.on_enter starts, and B.on_enter has completed
\* before B.process_signal is called with any signal.
C1_SwitchOrder == [][SwitchOrdered(trace', Range(agents), lifecycle)]_vars

\* a handler switched from one agent to another and the new agent then processed the signal
C1_Witness ==
    \E s \in Positions(trace, "set_active_agent"), k \in Positions(trace, "process_signal") :
        s < k /\ trace[s].b # None /\ trace[s].b # trace[s].a /\ trace[k].a = trace[s].a

\* The signals of tr are processed by identity, after a handoff was prepared for
\* identity and set_active_agent("identity", handoff) was performed when another
\* agent was active at the start.
GatedToIdentity(tr, active_before) ==
    \A k \in Positions(tr, "process_signal") :
        /\ tr[k].a = "identity"
        /\ active_before # "identity" =>
              \E p \in Positions(tr, "prepare_handoff"), w \in Positions(tr, "set_active_agent") :
                  /\ p < w /\ w < k
                  /\ tr[p].a = "identity"
                  /\ tr[w].a = "identity" /\ tr[w].n = tr[p].n
                  /\ \E e \in Positions(tr, "on_enter") :
                        w < e /\ e < k /\ tr[e].a = "identity" /\ tr[e].n = tr[p].n

\* C2: every signal the event loop processes while the user is not authenticated
\* is received by identity's process_signal; if another agent is active the
\* orchestrator first prepares a handoff and performs
\* set_active_agent("identity", handoff).
C2_UnauthenticatedGoesToIdentity ==
    [][(pc = "loop" /\ ~user.is_authenticated) => GatedToIdentity(trace', active_agent)]_vars

\* an unauthenticated user's signal found router active and was processed by identity
C2_Witness ==
    /\ pc = "loop" /\ ~user.is_authenticated
    /\ \E w \in Positions(trace, "set_active_agent"), k \in Positions(trace, "process_signal") :
          w < k /\ trace[w].a = "identity" /\ trace[w].b = "router" /\ trace[k].a = "identity"

InCall == pc \in {"loop", "call_lookup", "call_session"}

\* C3: in every reachable state of a call, session.active_agent is the name of
\* an agent registered with the orchestrator.
C3_ActiveAgentRegistered == InCall => session.active_agent \in Range(agents)

\* a carrier call in which the supervisor has switched from identity to task_manager
C3_Witness ==
    /\ pc = "call_session"
    /\ session.previous_agent = "identity" /\ session.active_agent = "task_manager"

\* In a log of prepare_handoff and delivery events: every prepared handoff has
\* been delivered to exactly one on_enter when the next one is prepared, and no
\* handoff is delivered twice.
Deliveries(log, id) == {i \in 1..Len(log) : log[i].op = "on_enter" /\ log[i].n = id}
PreparedOnce(log) ==
    \A p \in Positions(log, "prepare_handoff") :
        /\ Cardinality(Deliveries(log, log[p].n)) <= 1
        /\ \A i \in Deliveries(log, log[p].n) : p < i
        /\ \A q \in Positions(log, "prepare_handoff") :
              p < q => \E i \in Deliveries(log, log[p].n) : i < q

\* C4: between any two consecutive prepare_handoff calls of a session there is
\* exactly one consumption of the prepared handoff (an on_enter that receives
\* it): it is never left unconsumed when the next one is prepared and never
\* delivered to more than one on_enter.
C4_HandoffConsumedOnce == PreparedOnce(handoff_log)

\* C5: within one session greeting_completed is monotonic: once true, it is
\* true in every later state of the session.
C5_GreetingMonotonic ==
    [][(session'.session_id = session.session_id /\ session.greeting_completed)
           => session'.greeting_completed]_vars

\* the greeting was completed and the session has since gone through an agent switch
C5_Witness ==
    /\ session.greeting_completed
    /\ \E s \in Positions(trace, "set_active_agent") : trace[s].b # None

IsPrefix(old, new) == Len(old) <= Len(new) /\ \A i \in 1..Len(old) : new[i] = old[i]
TimeOrdered(h) == \A i, j \in 1..Len(h) : i <= j => h[i].timestamp <= h[j].timestamp

\* C6: within one session the conversation history only grows by appending:
\* every recorded turn stays, unchanged, at its position, and timestamps are
\* non-decreasing in list order.
C6_HistoryAppendOnly ==
    [][/\ session'.session_id = session.session_id
          => IsPrefix(session.conversation_history, session'.conversation_history)
       /\ TimeOrdered(session'.conversation_history)]_vars

\* a history of a user turn, an assistant turn stamped later, and a further turn
C6_Witness ==
    LET h == session.conversation_history
    IN Len(h) >= 3 /\ h[1].role = "user" /\ h[2].role = "assistant"
       /\ h[1].timestamp < h[2].timestamp

\* C7: when the active agent's ToolCall response contains a transfer_agent call,
\* the orchestrator executes none of the other tool calls of the response and
\* performs exactly one warm handoff.
C7_TransferPreemptsTools ==
    \A k \in Positions(trace, "handle_response") :
        trace[k].b = TRANSFER_AGENT_TOOL =>
            LET after(op) == {i \in Positions(trace, op) : i > k}
            IN /\ Positions(trace, "execute_single_tool") = {}
               /\ Cardinality(after("prepare_handoff")) = 1
               /\ Cardinality(after("set_active_agent")) = 1
               /\ Cardinality(after("on_enter")) = 1
               /\ \A p \in after("prepare_handoff"), w \in after("set_active_agent"),
                     e \in after("on_enter") :
                      p < w /\ w < e /\ trace[w].n = trace[p].n /\ trace[e].n = trace[p].n

\* a response of two tool calls, one of them transfer_agent, was handled
C7_Witness ==
    \E k \in Positions(trace, "handle_response") :
        trace[k].b = TRANSFER_AGENT_TOOL /\ trace[k].n >= 2

\* C8: when an intercepted transfer_agent call names a target that is not a
\* registered agent, task_manager becomes the active agent and receives the
\* prepared handoff, and the switch does not fail.
C8_UnknownTargetFallsBack ==
    \A k \in Positions(trace, "handle_transfer_agent") :
        trace[k].a \notin Range(agents) =>
            /\ raised = NoExc
            /\ active_agent = "task_manager" /\ session.active_agent = "task_manager"
            /\ session.handoff_data.target_agent = trace[k].a
            /\ handoff_context["task_manager"] = session.handoff_data
            /\ \E p \in Positions(trace, "prepare_handoff"), e \in Positions(trace, "on_enter") :
                  k < p /\ p < e /\ trace[p].a = trace[k].a
                  /\ trace[e].a = "task_manager" /\ trace[e].n = trace[p].n

\* a transfer_agent call to an unregistered name was intercepted while another agent was active
C8_Witness ==
    \E k \in Positions(trace, "handle_transfer_agent"), w \in Positions(trace, "set_active_agent") :
        k < w /\ trace[k].a = UnknownAgent /\ trace[w].b # "task_manager"

\* C9: set_active_agent with a name that is not registered raises a routing
\* error carrying the source and target names, calls neither on_exit nor
\* on_enter, and leaves the orchestrator's active agent, session.active_agent
\* and session.previous_agent unchanged.
C9_UnknownNameRaises ==
    [][\A w \in Positions(trace', "set_active_agent") :
          trace'[w].a \notin Range(agents) =>
             /\ raised' = RoutingException(session.active_agent, trace'[w].a)
             /\ \A i \in Positions(trace', "on_exit") \cup Positions(trace', "on_enter") : i < w
             /\ active_agent' = active_agent
             /\ session'.active_agent = session.active_agent
             /\ session'.previous_agent = session.previous_agent]_vars

\* set_active_agent was called with an unregistered name while an agent was active
C9_Witness ==
    /\ active_agent # None
    /\ \E w \in Positions(trace, "set_active_agent") : trace[w].a \notin Range(agents)

C11_InterventionNotFatal ==
    Positions(trace, "handle_intervention") # {}
        => pc = "loop" /\ running /\ ~io.closed

\* the operations of tr from position k on
OpsFrom(tr, k) == [i \in 1..(Len(tr) - k + 1) |-> tr[k + i - 1].op]

\* the operations _handle_intervention performs, in order, for a handler that
\* may support clear and an agent that may be active
InterventionOps(clears, exits) ==
    <<"handle_intervention", "cancel_filler">>
        \o (IF clears THEN <<"clear_audio">> ELSE <<>>)
        \o <<"set_active_agent">>
        \o (IF exits THEN <<"on_exit">> ELSE <<>>)
        \o <<"on_enter", "send_text", "observer_reset">>

\* the agent an intervention with the given target leads to
InterventionAgent(target) == IF target \in Range(agents) THEN target ELSE "router"

\* C12: handling a PriorityIntervention performs, in this order: cancel the
\* filler, send clear to the carrier when the handler supports it, switch to
\* the intervention's target if it is registered and otherwise to router, send
\* one acknowledgement, reset the observer; afterwards the active agent is the
\* target or router and the observer's cancellation flag is clear.
C12_InterventionSteps ==
    \A k \in Positions(trace, "handle_intervention") :
        /\ IsPrefix(InterventionOps(io.has_clear_audio, trace[k].b # None), OpsFrom(trace, k))
        /\ \A w \in Positions(trace, "set_active_agent") :
              w > k => trace[w].a = InterventionAgent(trace[k].a)
        /\ \A t \in Positions(trace, "send_text") : t > k => trace[t].a = ACKNOWLEDGEMENT
        /\ Cardinality({t \in Positions(trace, "send_text") : t > k}) = 1
        /\ active_agent = InterventionAgent(trace[k].a)
        /\ session.active_agent = active_agent
        /\ ~observer.cancelled /\ ~observer.intervention_triggered

\* a "help" hotword on a handler with clear support, handled while task_manager was active
C12_Witness ==
    \E k \in Positions(trace, "handle_intervention") :
        /\ trace[k].a = UnknownAgent /\ trace[k].b = "task_manager"
        /\ io.has_clear_audio /\ active_agent = "router"

\* the TIMEOUT intervention has been dispatched: the handler that checked the
\* timeout switched to router and sent the acknowledgement
TimeoutDispatched ==
    \E c \in Positions(trace, "check_timeout"), w \in Positions(trace, "set_active_agent"),
       t \in Positions(trace, "send_text") :
        /\ trace[c].a = "TIMEOUT" /\ c < w /\ w < t
        /\ trace[w].a = "router" /\ trace[t].a = ACKNOWLEDGEMENT
        /\ active_agent = "router"

\* the loop is running and no signal has arrived for longer than the timeout
TimedOut == pc = "loop" /\ running /\ observer.timed_out
\* C13: if no inbound signal arrives for longer than the observer's timeout
\* while the event loop is running, then eventually the TIMEOUT intervention is
\* dispatched: the active agent becomes router and an acknowledgement is sent
\* (unless a signal arrives or the loop ends first).
C13_TimeoutDispatched == TimedOut ~> (TimeoutDispatched \/ ~TimedOut)

\* the tool calls of the last handler that ended in a tool-execution error
FailedTools ==
    {k \in Positions(trace, "execute_single_tool") : trace[k].b = "ToolExecutionException"}

\* C14: when a tool invoked by the orchestrator raises, or its name is not
\* found on the active agent, the failure becomes a tool-execution error, the
\* filler is cancelled, one apology is sent, the active agent stays the same
\* and the event loop continues with the next signal.
C14_ToolFailureApology ==
    /\ \A k \in Positions(trace, "execute_single_tool") :
          trace[k].a \notin AgentTools(active_agent) => k \in FailedTools
    /\ \A k \in FailedTools :
          /\ k + 2 <= Len(trace)
          /\ trace[k + 1].op = "cancel_filler"
          /\ trace[k + 2] = Ev("send_text", TOOL_APOLOGY, active_agent, 0)
          /\ io.pending = 0
          /\ \A w \in Positions(trace, "set_active_agent") : w < k
          /\ pc = "loop" /\ running /\ ~io.closed /\ raised = NoExc
    /\ Cardinality({t \in Positions(trace, "send_text") : trace[t].a = TOOL_APOLOGY})
          = Cardinality(FailedTools)

\* one response in which a tool of the active agent raised and another tool was not found
C14_Witness ==
    \E k1, k2 \in FailedTools :
        trace[k1].a \in AgentTools(active_agent) /\ trace[k2].a \notin AgentTools(active_agent)

\* C15: an agent error raised while a signal is processed is handled by its
\* recoverable flag: when recoverable, one apology is sent and the loop
\* continues with the next signal; when not, the error leaves the event loop
\* and run() tears the call down, closing the I/O handler.
C15_AgentErrorByFlag ==
    \A r \in Positions(trace, "raise") :
        trace[r].a = "AgentException" =>
            IF trace[r].b = "recoverable"
            THEN /\ OpsFrom(trace, r) = <<"raise", "send_text">>
                 /\ trace[r + 1].a = ISSUE_APOLOGY
                 /\ pc = "loop" /\ running /\ ~io.closed /\ raised = NoExc
            ELSE /\ OpsFrom(trace, r) = <<"raise", "cancel", "cancel", "gather", "close">>
                 /\ pc = "stopped" /\ ~running /\ io.closed
                 /\ raised = AgentException(FALSE)

\* the newly entered identity agent raised an error that is not recoverable, and the call was torn down
C15_Witness ==
    \E r \in Positions(trace, "raise"), e \in Positions(trace, "on_enter") :
        e < r /\ trace[r].a = "AgentException" /\ trace[r].b = "fatal" /\ io.closed

\* the tool invocations of tr, by the orchestrator or by the carrier pump
ToolRuns(tr) == Positions(tr, "execute_single_tool") \cup Positions(tr, "tool_execute")

\* C16: every task-manager tool invoked while the user is not authenticated
\* fails with an error and performs no read or write on the task repository.
C16_TaskToolsRequireAuth ==
    [][~user.is_authenticated =>
          /\ Positions(trace', "task_repository") = {}
          /\ \A k \in ToolRuns(trace') :
                trace'[k].a \in TaskTools
                    => trace'[k].b \in {"raise", "ToolExecutionException"}]_vars

\* C17: when an operation fails because it requires authentication and the user
\* is anonymous, the failure is converted into a warm handoff to identity: a
\* handoff for identity is prepared and identity becomes the active agent (at
\* once, or by the switch the carrier pump requests).
C17_AuthFailureHandsOff ==
    [][Positions(trace', "get_user_id") # {} =>
          /\ session'.handoff_data.target_agent = "identity"
          /\ \/ active_agent' = "identity"
             \/ switch_requested' /\ next_agent_name' = "identity"]_vars

\* cancel_filler called n times in a row
RECURSIVE cancel_n(_, _)
cancel_n(M, n) == IF n = 0 THEN M ELSE cancel_n(cancel_filler(M), n - 1)

\* the handler as it is, and as it is after one more send_filler
AfterFillers == {Machine, send_filler(Machine, "THINKING", "system")}

\* C18: cancel_filler is idempotent: for any n >= 1, calling it n times after
\* zero or one send_filler leaves the handler in the same state as calling it
\* once, with no outstanding filler task and is_filler_cancelled() true.
C18_CancelFillerIdempotent ==
    \A X \in AfterFillers : \A n \in 1..MaxCancels :
        /\ cancel_n(X, n).io = cancel_filler(X).io
        /\ cancel_n(X, n).io.filler_task = None
        /\ cancel_n(X, n).io.filler_cancelled
        /\ cancel_n(X, n).io.pending = 0

\* a filler was sent and cancel_filler then ran twice before the next filler
C18_Witness ==
    /\ io.filler_cancelled /\ io.filler_task = None
    /\ \E i \in Positions(trace, "send_filler"), j \in Positions(trace, "cancel_filler") :
          /\ i < j /\ j < Len(trace)
          /\ trace[j + 1].op = "cancel_filler"
          /\ \A k \in i + 1 .. j : trace[k].op # "send_filler"

\* the fillers sent and not cancelled just before position k of tr, `before`
\* being their number when the handler started
PendingAt(tr, k, before) ==
    LET F == {i \in 1..(k - 1) : tr[i].op \in {"send_filler", "cancel_filler"}}
        last == CHOOSE i \in F : \A j \in F : j <= i
    IN IF F = {} THEN before ELSE IF tr[last].op = "cancel_filler" THEN 0 ELSE 1

\* C19: no filler stays pending (sent and not yet cancelled) at the moment a
\* new filler is sent, an intervention is handled or any set_active_agent
\* begins; at most one filler is active per I/O handler at any time.
C19_NoFillerLeftPending ==
    [][/\ \A k \in Positions(trace', "send_filler") \cup Positions(trace', "set_active_agent") :
             PendingAt(trace', k, io.pending) = 0
       /\ \A k \in Positions(trace', "handle_intervention") :
             PendingAt(trace', k + 2, io.pending) = 0
       /\ io'.pending <= 1]_vars

\* a handler that sent a filler and then began an agent switch
C19_Witness ==
    \E i \in Positions(trace, "send_filler"), w \in Positions(trace, "set_active_agent") :
        i < w /\ pc = "loop"

\* what a call observes of the orchestrator and of the bridge
Observed ==
    <<session, user, active_agent, switch_requested, next_agent_name, bridge_handoff>>

\* C20: two carrier calls handled concurrently are independent: the session
\* context, authenticated user, active agent, switch-requested flag, next-agent
\* name and pending handoff observed by a call in progress are never changed
\* by a step of another call.
C20_CallsIndependent ==
    [][\A c \in Connections :
          (conns.at[c] \in {"lookup", "session"} /\ conns'.turn # c) => UNCHANGED Observed]_vars

\* C21: during a call at most one LLM live session is open at any time: when
\* a live session is opened no other is open and no pump of an earlier one
\* runs; while an agent switch is pending both pumps have stopped and the
\* session is closed; the switch leaves the carrier WebSocket open.
C21_OneLiveSession ==
    /\ live.open <= 1
    /\ \A k \in Positions(trace, "live_open") :
          trace[k].n = 0 /\ trace[k].b = "stopped" /\ ~io.closed
    /\ (pc = "call_session" /\ switch_requested) =>
          (live = LiveSession /\ ~io.closed)

\* a warm switch has just been made and the next live session is open
C21_Witness ==
    /\ pc = "call_session" /\ live.open = 1
    /\ \E i \in Positions(trace, "on_enter"), k \in Positions(trace, "live_open") :
          i < k /\ trace[i].n # 0

\* the step ends a call: the carrier disconnects while no switch is pending,
\* or the input stream of the event loop ends
CallEnds ==
    \/ pc = "call_session" /\ ~switch_requested /\ pc' = "ready"
    \/ pc = "loop" /\ pc' = "stopped" /\ raised'.kind = "none"

\* C22: when a call disconnects (carrier stop event, WebSocket disconnect or
\* end of the input stream), on_exit is called for the agent that is active at
\* that time before the call handler finishes.
C22_ExitOnDisconnect ==
    [][(CallEnds /\ active_agent # None) =>
          \E k \in Positions(trace', "on_exit") : trace'[k].a = active_agent]_vars

\* C23: whenever the event loop exits (end of the input stream, after stop(),
\* after an intervention, or because an exception propagates), the
\* timeout-checker task and the silence-monitor task have both been cancelled
\* and have terminated before the event loop returns.
C23_LoopTasksEnded ==
    /\ pc # "loop" => (loop_tasks.timeout # "running" /\ loop_tasks.silence # "running")
    /\ (pc = "stopped" /\ loop_tasks.timeout # "none") =>
          \E g \in Positions(trace, "gather") :
              /\ \E i \in 1..(g - 1) : trace[i].op = "cancel" /\ trace[i].a = "timeout_task"
              /\ \E j \in 1..(g - 1) : trace[j].op = "cancel" /\ trace[j].a = "silence_task"
              /\ \A k \in Positions(trace, "close") : g < k
              /\ loop_tasks = [timeout |-> "done", silence |-> "done"]

\* the loop has been left after an intervention and its tasks have ended
C23_Witness ==
    /\ pc = "stopped" /\ loop_tasks.timeout = "done" /\ loop_tasks.silence = "done"
    /\ Positions(trace, "handle_intervention") # {}

\* the regular tool calls the outbound pump has handled in tr
BridgeToolRuns(tr) == Positions(tr, "tool_execute") \cup Positions(tr, "tool_error")

\* C24: for every regular (non-transfer_agent) tool call the outbound pump
\* handles, a tool response for that call is sent back to the live session:
\* the tool's result on success, an error object when the tool raises or is
\* not found.
C24_ToolResponseSent ==
    \A k \in BridgeToolRuns(trace) :
        \E j \in Positions(trace, "send_tool_response") :
            /\ k < j
            /\ \A i \in BridgeToolRuns(trace) : ~(k < i /\ i < j)
            /\ trace[j].a = trace[k].a
            /\ trace[j].n = Cardinality({i \in BridgeToolRuns(trace) : i <= k})
            /\ trace[j].b = bridge_result(trace[k])

\* the create_user calls of the pump's step tr that came to `outcome`
CreateUserRuns(tr, outcome) ==
    {k \in Positions(tr, "tool_execute") : tr[k].a = "create_user" /\ tr[k].b = outcome}

\* C25: in the bridge pump a create_user call that succeeds installs an
\* authenticated UserContext with the created user's id and full name, prepares
\* a handoff to task_manager carrying that user name and requests a switch, so
\* that the supervisor's next transition makes task_manager the active agent
\* with that handoff; a create_user call that fails installs no user and
\* requests no switch.
C25_CreateUserSwitches ==
    [][/\ CreateUserRuns(trace', "ok") # {} =>
             /\ user' = KnownUser
             /\ bridge_handoff'.id # 0 /\ bridge_handoff' = session'.handoff_data
             /\ bridge_handoff'.target_agent = "task_manager"
             /\ bridge_handoff'.user_name = user'.full_name
             /\ switch_requested' /\ next_agent_name' = "task_manager"
       /\ (CreateUserRuns(trace', "ok") = {}
             /\ CreateUserRuns(trace', "fail") \cup CreateUserRuns(trace', "raise") # {}) =>
             /\ user' = user
             /\ Positions(trace', "prepare_handoff") = {} => ~switch_requested'
       /\ (pc = "call_session" /\ switch_requested
             /\ bridge_handoff.reason = "User authenticated") =>
             /\ active_agent' = "task_manager" /\ session'.active_agent = "task_manager"
             /\ handoff_context'["task_manager"] = bridge_handoff
             /\ ~switch_requested']_vars

\* a user was created and the supervisor has entered task_manager with the handoff
C25_Witness ==
    /\ pc = "call_session" /\ active_agent = "task_manager" /\ user = KnownUser
    /\ handoff_context["task_manager"].reason = "User authenticated"
    /\ handoff_context["task_manager"].user_name = KnownUser.full_name
    /\ Positions(trace, "live_open") # {}

\* C26: at the start of a carrier call, after the caller lookup, the initial
\* active agent is task_manager exactly when an authenticated UserContext has
\* been installed for the caller, and identity otherwise (caller not found,
\* caller number unknown, or the lookup failing).
C26_InitialAgentByLookup ==
    [][(pc = "call_lookup" /\ Positions(trace', "caller_lookup") # {}) =>
          /\ \A k \in Positions(trace', "caller_lookup") :
                /\ (trace'[k].a = "found") <=> (user' = KnownUser)
                /\ (trace'[k].a # "found") <=> (user' = AnonymousUser)
          /\ (active_agent' = "task_manager") <=> user'.is_authenticated
          /\ (active_agent' = "identity") <=> ~user'.is_authenticated
          /\ session'.active_agent = active_agent']_vars

\* a call whose caller lookup failed has started at identity
C26_Witness ==
    /\ pc = "call_session" /\ active_agent = "identity" /\ ~user.is_authenticated
    /\ \E k \in Positions(trace, "caller_lookup") : trace[k].a = "lookup_failed"

\* the entries of the metrics history with the given op
MetricPositions(op) == {k \in 1..Len(metrics.history) : metrics.history[k].op = op}

\* the user_speech_end at j is still unconsumed just before position k
Unconsumed(j, k) ==
    /\ j < k /\ metrics.history[j].op = "record_user_speech_end"
    /\ \A i \in (j + 1)..(k - 1) : metrics.history[i].op # "record_first_audio_sent"

\* C27: every TTFA metric event is preceded, in the same call, by a
\* record_user_speech_end that no earlier TTFA event has consumed; a
\* record_first_audio_sent with no such preceding user_speech_end emits no
\* TTFA event, and after record_first_audio_sent no ttfa timer remains started.
C27_TtfaNeedsSpeechEnd ==
    /\ \A k \in MetricPositions("ttfa") :
          /\ k > 1 /\ metrics.history[k - 1].op = "record_first_audio_sent"
          /\ \E j \in 1..(k - 2) : Unconsumed(j, k - 1)
    /\ \A k \in MetricPositions("record_first_audio_sent") :
          (~\E j \in 1..(k - 1) : Unconsumed(j, k)) =>
              (k = Len(metrics.history) \/ metrics.history[k + 1].op # "ttfa")
    /\ (metrics.history # <<>>
          /\ metrics.history[Len(metrics.history)].op \in {"record_first_audio_sent", "ttfa"}) =>
              metrics.timers["ttfa"] = NoTime

\* a TTFA event was logged, and a later first audio without a new speech end logged none
C27_Witness ==
    \E k \in MetricPositions("ttfa") :
        /\ k + 1 = Len(metrics.history)
        /\ metrics.history[k + 1].op = "record_first_audio_sent"
        /\ metrics.timers["ttfa"] = NoTime

\* C28: within one silence episode (the interval between two consecutive
\* reset_silence_tracker calls) check_silence emits at most one
\* SILENCE_DURATION event however many times it is polled, and it emits none
\* before any audio has been sent.
C28_OneSilenceEventPerEpisode ==
    /\ \A i, j \in MetricPositions("silence_duration") :
          i < j => \E r \in (i + 1)..(j - 1) : metrics.history[r].op = "reset_silence_tracker"
    /\ \A k \in MetricPositions("silence_duration") :
          /\ k > 1 /\ metrics.history[k - 1].op = "check_silence"
          /\ \E a \in 1..(k - 1) :
                metrics.history[a].op \in {"record_first_audio_sent", "reset_silence_tracker"}

\* a silence was logged and a later poll of the same episode, still silent, logged nothing
C28_Witness ==
    \E k \in MetricPositions("silence_duration") :
        /\ k + 1 = Len(metrics.history)
        /\ metrics.history[k + 1].op = "check_silence"
        /\ silence_ms(metrics, perf_counter) > SILENCE_WARNING_MS

\* every row of the table has a priority in 1..5 and a valid status
RowsValid(rows) ==
    \A i \in 1..Len(rows) :
        /\ 1 <= rows[i].priority /\ rows[i].priority <= 5
        /\ rows[i].status \in {"OPEN", "IN_PROGRESS", "COMPLETED", "CANCELLED"}

\* the priority p brought into 1..5
InRange(p) == IF p < 1 THEN 1 ELSE IF p > 5 THEN 5 ELSE p

\* C29: after any sequence of TaskRepository operations (create, update,
\* update_status, delete) every persisted task has 1 <= priority <= 5 and a
\* status in {OPEN, IN_PROGRESS, COMPLETED, CANCELLED}: an out-of-range
\* priority is clamped on write, a new task starts OPEN, and a write with an
\* invalid status is rejected with an argument error that leaves the stored
\* task unchanged.
C29_PersistedTasksValid ==
    [][/\ RowsValid(task_table'.rows)
       /\ task_table'.call.op = "create" =>
             /\ Len(task_table'.rows) = Len(task_table.rows) + 1
             /\ task_table'.rows[Len(task_table'.rows)] =
                    [task_id |-> task_table'.call.task_id,
                     priority |-> InRange(task_table'.call.priority), status |-> "OPEN"]
       /\ (task_table'.call.op \in {"update", "update_status"}
             /\ "status" \in task_table'.call.keys
             /\ task_table'.call.status \in Statuses \ valid_statuses) =>
             /\ task_table'.result = "ValueError"
             /\ task_table'.rows = task_table.rows
       /\ (task_table'.call.op = "update" /\ task_table'.result = "task"
             /\ "priority" \in task_table'.call.keys) =>
             \E i \in 1..Len(task_table'.rows) :
                 /\ task_table'.rows[i].task_id = task_table'.call.task_id
                 /\ task_table'.rows[i].priority = InRange(task_table'.call.priority)]_vars

\* a task given a priority above the range is stored with priority 5, and the
\* last call, a write with an invalid status, was rejected
C29_Witness ==
    /\ task_table.result = "ValueError"
    /\ \E i \in 1..Len(task_table.rows) :
          task_table.rows[i].priority = 5 /\ task_table.rows[i].status = "COMPLETED"

\* C30: for every agent (router, identity, task_manager): if its latest
\* on_enter received handoff data whose injection block is non-empty,
\* render_prompt returns the rendered prompt with that block appended
\* verbatim; after on_exit, or after an on_enter without handoff data,
\* render_prompt appends no injection block.
C30_PromptCarriesHandoff ==
    \A a \in AgentNames :
        render_prompt(a, handoff_context[a]) =
            rendered(a) \o to_context_injection(handoff_context[a])

\* the prepare_handoff events that follow the handle_response at k before the
\* next response is handled
HandoffsOf(tr, k) ==
    {p \in Positions(tr, "prepare_handoff") :
        p > k /\ \A j \in Positions(tr, "handle_response") : ~(k < j /\ j < p)}

\* C31: every routing decision the router agent produces, on any input and
\* any LLM output, routes to identity or to task_manager: the handoff the
\* orchestrator prepares for a ROUTING response never names another target.
C31_RouterTargetsValid ==
    \A k \in Positions(trace, "handle_response") :
        trace[k].a = "ROUTING" =>
            \A p \in HandoffsOf(trace, k) : trace[p].a \in {"identity", "task_manager"}

\* handle_call has returned or raised: the handler waits for the next call
CallOver == pc = "ready" /\ ncalls > 0

\* C32: on every exit path of the carrier call handler (normal end,
\* disconnect, an exception before or inside the supervisor loop, a live
\* session that fails to open) the carrier I/O handler is closed and no live
\* session is left open.
C32_CallReleasesResources == CallOver => (io.closed /\ live.open = 0)

\* the tool calls _execute_single_tool was called for after the response at k
ExecutedAfter(tr, k) == {j \in Positions(tr, "execute_single_tool") : j > k}

\* C33: for a ToolCall response without a transfer_agent call the orchestrator
\* executes every tool call of the response exactly once, none is skipped: as
\* many tools are executed as the response has calls.
C33_EveryToolCallExecuted ==
    \A k \in Positions(trace, "handle_response") :
        (trace[k].a = "TOOL_CALL" /\ trace[k].b = None) =>
            Cardinality(ExecutedAfter(trace, k)) = trace[k].n

\* the agent whose process_signal produced the response being handled at j
AgentAt(tr, j) ==
    tr[CHOOSE p \in Positions(tr, "process_signal") :
           p < j /\ \A q \in Positions(tr, "process_signal") : q < j => q <= p].a

\* a cancel_filler follows the tool run at j before any other filler or tool
CancelledAfter(tr, j) ==
    \E c \in Positions(tr, "cancel_filler") :
        c > j /\ \A i \in (j + 1)..(c - 1) : tr[i].op \notin {"send_filler", "execute_single_tool"}

\* C34: for each tool call the orchestrator executes, a filler is playing when
\* the tool starts exactly when the active agent flags the tool is_slow (not
\* for a tool that is not slow or not found), cancel_filler is called after the
\* tool finishes whether it succeeded or failed, and no filler is pending when
\* _execute_tools has returned.
C34_SlowToolsMasked ==
    \A j \in Positions(trace, "execute_single_tool") :
        /\ is_tool_slow(AgentAt(trace, j), trace[j].a) <=> (PendingAt(trace, j, 0) = 1)
        /\ CancelledAfter(trace, j)
        /\ io.pending = 0

\* a slow tool failed after its filler was sent, and the filler was cancelled
C34_Witness ==
    \E j \in Positions(trace, "execute_single_tool") :
        /\ trace[j].b = "ToolExecutionException"
        /\ is_tool_slow(AgentAt(trace, j), trace[j].a)
        /\ PendingAt(trace, j, 0) = 1 /\ CancelledAfter(trace, j)

\* the pump whose converter is r' has converted a frame of the session of r
\* from the state the frame before left, or from the initial state for the
\* first frame of a live session
StateCarried(r, rn, outrate) ==
    rn.frames = r.frames + 1 =>
        (IF rn.given = NoState THEN InitialState(outrate) ELSE rn.given)
            = (IF r.frames = 0 THEN InitialState(outrate) ELSE r.state)

\* C35: in the bridge pumps the sample-rate converter's state is carried from
\* each audio frame to the next within one live session, in both directions
\* (8 to 16 kHz inbound, 24 to 8 kHz outbound), and is the initial state for
\* the first frame of a new live session.
C35_ResamplerStateCarried ==
    [][/\ resampler'.session = resampler.session =>
             /\ StateCarried(resampler.inbound, resampler'.inbound, 2)
             /\ StateCarried(resampler.outbound, resampler'.outbound, 1)
       /\ resampler'.session # resampler.session =>
             /\ resampler'.inbound.frames = 0
             /\ resampler'.outbound.frames = 0]_vars

\* the signal an event of the input stream or of watch carries
SignalOf(e) == [kind |-> e.a, content |-> e.b]

\* C36: InterventionObserver.watch is a pass-through: a signal of the input
\* stream is yielded unchanged, unless the observer was cancelled before it
\* or it triggers an intervention; such a signal is not yielded, is not
\* processed by any agent and adds no turn to the history.
C36_WatchPassThrough ==
    [][\A i \in Positions(trace', "stream_input") :
          IF observer.cancelled \/ analyze_signal(SignalOf(trace'[i])) # None
          THEN /\ Positions(trace', "watch_yield") = {}
               /\ Positions(trace', "process_signal") = {}
               /\ session'.conversation_history = session.conversation_history
          ELSE /\ Positions(trace', "watch_yield") = {i + 1}
               /\ SignalOf(trace'[i + 1]) = SignalOf(trace'[i])]_vars

\* after a signal went through to an agent, a hotword signal was intercepted
C36_Witness ==
    /\ session.conversation_history # <<>>
    /\ \E i \in Positions(trace, "stream_input") :
          /\ analyze_signal(SignalOf(trace[i])) # None
          /\ Positions(trace, "handle_intervention") # {}

\* C37: each input signal is passed to process_signal at most once and to at
\* most one agent: a handler's step calls process_signal at most once, after
\* it took a signal from the input stream, and never again after the agent
\* switch that a routing decision or a transfer_agent call brought about.
C37_SignalDeliveredOnce ==
    /\ Cardinality(Positions(trace, "process_signal"))
           <= Cardinality(Positions(trace, "stream_input"))
    /\ Cardinality(Positions(trace, "stream_input")) <= 1
    /\ \A k \in Positions(trace, "process_signal") :
          /\ \E i \in Positions(trace, "stream_input") : i < k
          /\ \A w \in Positions(trace, "set_active_agent") :
                w > k => \A j \in Positions(trace, "process_signal") : j < w

\* the signal an agent processed led to a switch to another agent
C37_Witness ==
    \E k \in Positions(trace, "process_signal"), w \in Positions(trace, "set_active_agent") :
        /\ k < w /\ raised = NoExc
        /\ active_agent = trace[w].a /\ active_agent # trace[k].a

\* what the outbound pump does towards the carrier and the live session
OutboundOps == {"media", "tool_execute", "tool_error", "send_tool_response"}

\* C38: in the bridge, once a switch has been requested within a live session
\* the outbound pump of that session forwards no audio frame, executes no tool
\* call and sends no tool response any more: nothing of the kind follows the
\* request in the pump's step, the pump has ended with it, and the step taken
\* while the switch is requested is the supervisor's.
C38_NoOutboundAfterSwitch ==
    [][pc = "call_session" =>
          /\ \A p \in Positions(trace', "prepare_handoff") :
                \A j \in (p + 1)..Len(trace') : trace'[j].op \notin OutboundOps
          /\ switch_requested =>
                \A j \in 1..Len(trace') : trace'[j].op \notin OutboundOps
          /\ switch_requested' => ~live'.send]_vars

\* the pump executed a tool call that requested a switch, and has ended
C38_Witness ==
    /\ pc = "call_session" /\ switch_requested /\ ~live.send
    /\ \E k \in Positions(trace, "tool_execute"), p \in Positions(trace, "prepare_handoff") :
          k < p

\* C39: during a call at most one task reads from the carrier WebSocket: the
\* start-wait reader no longer reads once an inbound pump does, and when a
\* live session starts its pumps the inbound pump of the session before has
\* ended.
C39_OneWebSocketReader ==
    /\ live.readers <= 1
    /\ live.receive => ~live.start_reader
    /\ \A k \in Positions(trace, "live_open") : trace[k].b = "stopped"

\* the start event timed out, so that the reader was cancelled when the pumps
\* started, and the call is in the live session that followed an agent switch
C39_Witness ==
    /\ pc = "call_session" /\ live.receive /\ live.readers = 1
    /\ session.stream_sid = None
    /\ \E w \in Positions(trace, "set_active_agent"), k \in Positions(trace, "live_open") :
          w < k /\ trace[w].b # None

\* C40: authentication and session state do not carry over from one call to
\* the next on the same carrier handler: when a call has started and its
\* caller has not been looked up yet, the user is anonymous, the session is
\* new (no history, greeting not completed, no handoff data) and the switch
\* flag, the next-agent name and the pending handoff are cleared.
C40_CallStartsClean ==
    pc = "call_lookup" =>
        /\ user = AnonymousUser /\ ~is_authenticated([user |-> user])
        /\ session.session_id = ncalls
        /\ session.conversation_history = <<>>
        /\ ~session.greeting_completed
        /\ session.handoff_data = NoHandoff
        /\ ~switch_requested /\ next_agent_name = None /\ bridge_handoff = NoHandoff

\* a second call has started on a handler whose first call ended with
\* task_manager active
C40_Witness ==
    pc = "call_lookup" /\ ncalls >= 2 /\ active_agent = "task_manager"
====
